---- MODULE Spec2Model ----
(***************************************************************************)
(* A model of spice, a client of the Dune query service:                   *)
(*   - query (src/spice/_extract.py): the orchestration of one top-level   *)
(*     call (cache read, age check, result fetch, submission, polling,     *)
(*     result processing);                                                 *)
(*   - the poller, the latest-execution lookup and the result retriever;   *)
(*   - the on-disk cache (src/spice/_cache.py): key derivation, write,     *)
(*     read.                                                               *)
(* Every network request of the code is one action: the request, the       *)
(* response the service gives in its current state, and the code that      *)
(* handles the response up to the next request.                            *)
(***************************************************************************)
EXTENDS Integers, Sequences, FiniteSets, TLC

(***************************************************************************)
(* Bounds of the model.                                                    *)
(***************************************************************************)
\* status responses that leave the poller in its loop (HTTP 429, not finished),
\* per top-level call
MaxPolls == 2
\* executions the service holds (ids 1..MaxExec)
MaxExec == 2
\* result requests of one top-level call
MaxFetch == 2
\* cache writes of the cache specification
MaxWrites == 2

(***************************************************************************)
(* Python values.  None is the empty tuple and a present value v is <<v>>, *)
(* so that an optional integer, list or mapping is one TLA+ type.          *)
(***************************************************************************)
None == <<>>
Some(v) == <<v>>
IsNone(o) == o = <<>>
Val(o) == o[1]

\* A mapping (dict) is a sequence of <<key, value>> pairs in insertion order,
\* keys distinct.  Keys and values are small integers standing for strings.

(***************************************************************************)
(* The cache key (src/spice/_cache.py).                                    *)
(***************************************************************************)
\* spice.__version__
spice_version == "0.1.10"

\* the directory used when cache_dir is None ('/tmp/dune_spice'), as a directory id
default_cache_dir == 1

\* str(type) of a polars data type; types are numbered 1..3
str_type(t) == <<"Int64", "String", "Float32">>[t]

\* A types / all_types argument is None or <<[tag, list, dict]>>: tag "list"
\* with the types in `list`, or tag "dict" with <<column name, type>> pairs in
\* `dict` (insertion order).  Any other tag is a value that is neither.
TypesList(l) == Some([tag |-> "list", list |-> l, dict |-> <<>>])
TypesDict(d) == Some([tag |-> "dict", list |-> <<>>, dict |-> d])

\* _preserialize_types: None, or the JSON array the key is computed from: one
\* <<str(type)>> per list entry, one <<name, str(type)>> per mapping entry in
\* insertion order.  [ok |-> FALSE] is the raise of 'invalid format'.
preserialize_types(raw) ==
    IF IsNone(raw) THEN [ok |-> TRUE, types |-> None]
    ELSE IF Val(raw).tag = "list"
    THEN [ok |-> TRUE,
          types |-> Some([i \in DOMAIN Val(raw).list |-> <<str_type(Val(raw).list[i])>>])]
    ELSE IF Val(raw).tag = "dict"
    THEN [ok |-> TRUE,
          types |-> Some([i \in DOMAIN Val(raw).dict |->
                            <<Val(raw).dict[i][1], str_type(Val(raw).dict[i][2])>>])]
    ELSE [ok |-> FALSE, types |-> None]

\* json.dumps(mapping, sort_keys=True): the pairs in ascending key order
RECURSIVE SortByKey(_)
SortByKey(m) ==
    IF m = <<>> THEN <<>>
    ELSE LET i == CHOOSE i \in DOMAIN m : \A j \in DOMAIN m : m[i][1] <= m[j][1]
             rest == [k \in 1..(Len(m) - 1) |-> IF k < i THEN m[k] ELSE m[k + 1]]
         IN  <<m[i]>> \o SortByKey(rest)

json_dumps_mapping(o) == IF IsNone(o) THEN None ELSE Some(SortByKey(Val(o)))

\* a faulty hash_params that leaves `offset` out (C2 tells the code from it)
hash_params_without_offset(execution, execute_kwargs, result_kwargs) ==
    [spice_version |-> spice_version,
     execution_id |-> execution.execution_id,
     query_id |-> execute_kwargs.query_id,
     parameters |-> json_dumps_mapping(execute_kwargs.parameters),
     limit |-> result_kwargs.limit,
     sample_count |-> result_kwargs.sample_count,
     sort_by |-> result_kwargs.sort_by,
     columns |-> result_kwargs.columns,
     extras |-> json_dumps_mapping(result_kwargs.extras),
     types |-> preserialize_types(result_kwargs.types).types,
     all_types |-> preserialize_types(result_kwargs.all_types).types]

\* a faulty hash_params that takes the credential in (C26 tells the code from it)
hash_params_with_api_key(execution, execute_kwargs, result_kwargs) ==
    [spice_version |-> spice_version,
     execution_id |-> execution.execution_id,
     query_id |-> execute_kwargs.query_id,
     api_key |-> execute_kwargs.api_key,
     parameters |-> json_dumps_mapping(execute_kwargs.parameters),
     limit |-> result_kwargs.limit,
     offset |-> result_kwargs.offset,
     sample_count |-> result_kwargs.sample_count,
     sort_by |-> result_kwargs.sort_by,
     columns |-> result_kwargs.columns,
     extras |-> json_dumps_mapping(result_kwargs.extras),
     types |-> preserialize_types(result_kwargs.types).types,
     all_types |-> preserialize_types(result_kwargs.all_types).types]

\* hash_params of _build_cache_path, as json.dumps(hash_params, sort_keys=True)
\* writes it: every mapping-valued field in key order, the type fields as
\* _preserialize_types left them
hash_params(execution, execute_kwargs, result_kwargs) ==
    [spice_version |-> spice_version,
     execution_id |-> execution.execution_id,
     query_id |-> execute_kwargs.query_id,
     parameters |-> json_dumps_mapping(execute_kwargs.parameters),
     limit |-> result_kwargs.limit,
     offset |-> result_kwargs.offset,
     sample_count |-> result_kwargs.sample_count,
     sort_by |-> result_kwargs.sort_by,
     columns |-> result_kwargs.columns,
     extras |-> json_dumps_mapping(result_kwargs.extras),
     types |-> preserialize_types(result_kwargs.types).types,
     all_types |-> preserialize_types(result_kwargs.all_types).types]

\* md5(...).hexdigest()[:16] of the JSON text.  The digest is taken to be free
\* of collisions: it is the text it digests.
parameter_hash(execution, execute_kwargs, result_kwargs) ==
    <<"md5", hash_params(execution, execute_kwargs, result_kwargs)>>

\* a faulty _build_cache_path that takes a missing timestamp for 0 (C25 tells
\* the code from it)
build_cache_path_without_timestamp(execution, execute_kwargs, result_kwargs, cache_dir) ==
    IF \/ ~preserialize_types(result_kwargs.types).ok
       \/ ~preserialize_types(result_kwargs.all_types).ok
    THEN [ok |-> FALSE, path |-> <<>>]
    ELSE [ok |-> TRUE,
          path |-> <<[cache_dir |-> IF IsNone(cache_dir) THEN default_cache_dir
                                    ELSE Val(cache_dir),
                      query_id |-> execute_kwargs.query_id,
                      execution_id |-> execution.execution_id,
                      parameter_hash |->
                          parameter_hash(execution, execute_kwargs, result_kwargs),
                      timestamp |-> IF IsNone(execution.timestamp) THEN 0
                                    ELSE Val(execution.timestamp)]>>]

\* _build_cache_path: [ok |-> FALSE] when it raises (a type argument of an
\* invalid format, a timestamp key that is absent, a timestamp that is None)
build_cache_path(execution, execute_kwargs, result_kwargs, cache_dir) ==
    IF \/ ~preserialize_types(result_kwargs.types).ok
       \/ ~preserialize_types(result_kwargs.all_types).ok
       \/ ~execution.has_timestamp
       \/ IsNone(execution.timestamp)
    THEN [ok |-> FALSE, path |-> <<>>]
    ELSE [ok |-> TRUE,
          path |-> <<[cache_dir |-> IF IsNone(cache_dir) THEN default_cache_dir
                                    ELSE Val(cache_dir),
                      query_id |-> execute_kwargs.query_id,
                      execution_id |-> execution.execution_id,
                      parameter_hash |->
                          parameter_hash(execution, execute_kwargs, result_kwargs),
                      timestamp |-> Val(execution.timestamp)]>>]

(***************************************************************************)
(* The cache directory: `files` is a set of [path, df], one per path.      *)
(***************************************************************************)
path_exists(fs, path) == \E f \in fs : f.path = path
read_parquet(fs, path) == (CHOOSE f \in fs : f.path = path).df

\* a faulty move that keeps the file already at cache_path (C1 tells the code
\* from it)
move_keeping_existing(fs, path, df) ==
    IF \E f \in fs : f.path = path THEN fs ELSE fs \cup {[path |-> path, df |-> df]}

\* df.write_parquet(tmp_path); shutil.move(tmp_path, cache_path): the file at
\* cache_path is replaced
move_into_place(fs, path, df) ==
    {f \in fs : f.path # path} \cup {[path |-> path, df |-> df]}

\* save_to_cache: the directory after the call; unchanged when the path
\* cannot be built (the call raises before writing)
save_to_cache(fs, df, execution, execute_kwargs, result_kwargs, cache_dir) ==
    LET p == build_cache_path(execution, execute_kwargs, result_kwargs, cache_dir)
    IN  IF p.ok THEN [ok |-> TRUE, files |-> move_into_place(fs, Val(p.path), df)]
        ELSE [ok |-> FALSE, files |-> fs]

(***************************************************************************)
(* The service (external): its executions and the responses it gives.      *)
(***************************************************************************)
VARIABLES
    execs,        \* execution id -> [state, started]; state "none" for an unused id
    latest,       \* id of the latest execution of the query, 0 when there is none
    now,          \* the wall clock in seconds (constant over one call)
    files,        \* the cache directory
    files_before, \* the cache directory as the call found it
    inp,          \* the arguments of the top-level call
    pc,           \* the request the call issues next, or "start" / "done"
    refresh,      \* query's local `refresh`
    execution,    \* query's local `execution`
    gr_query,     \* TRUE when the running _get_results was given a query_id
    gr_execution, \* the running _get_results' local `execution`
    df,           \* the table _process_result holds while it looks up the execution
    result,       \* what the call returned or raised
    trace,        \* the requests and cache accesses of the call, in order
    poll_entry,   \* the execution as it was when the running poller was entered
    written,      \* the save_to_cache calls completed so far, each with its table
    frame         \* the locals of the helper a specification of one helper follows

vars == <<execs, latest, now, files, files_before, inp, pc, refresh, execution, gr_query,
          gr_execution, df, result, trace, poll_entry, written, frame>>

ExecIds == 1..MaxExec

ErrNotFound == "not found: No execution found for the latest version of the given query"
ErrExecuting == "Query state is QUERY_STATE_EXECUTING, cannot provide CSV result"
ErrOther == "an error of the service"
ErrRateLimit == "too many requests"

\* A response: the HTTP status, the keys present in the JSON body, their
\* values, and (for a CSV body) the table the body decodes to.
Response(status, keys, error, finished, state, id, started, table) ==
    [status_code |-> status, keys |-> keys, error |-> error,
     is_execution_finished |-> finished, state |-> state, execution_id |-> id,
     execution_started_at |-> started, table |-> table]

ErrorResponse(status, msg) ==
    Response(status, {"error"}, msg, FALSE, "", 0, 0, None)

RateLimited == ErrorResponse(429, ErrRateLimit)

QueryState(s) ==
    CASE s = "executing" -> "QUERY_STATE_EXECUTING"
      [] s = "completed" -> "QUERY_STATE_COMPLETED"
      [] s = "failed" -> "QUERY_STATE_FAILED"
      [] s = "cancelled" -> "QUERY_STATE_CANCELLED"
      [] OTHER -> ""

\* the metadata of execution e, as the status and results (JSON) endpoints give it
Metadata(e) ==
    Response(200,
             {"execution_id", "is_execution_finished", "state", "execution_started_at"},
             "", execs[e].state # "executing", QueryState(execs[e].state), e,
             execs[e].started, None)

\* GET execution/{e}/status
StatusResponses(e) ==
    {RateLimited} \cup
    (IF execs[e].state = "none" THEN {ErrorResponse(404, ErrOther)} ELSE {Metadata(e)})

\* GET query/{id}/results with limit=0, and the same request without a limit
\* (the age lookup)
LatestResponses ==
    {RateLimited, ErrorResponse(400, ErrOther)} \cup
    (IF latest = 0 THEN {ErrorResponse(404, ErrNotFound)} ELSE {Metadata(latest)})

\* the same, with HTTP 429 as the one error (the lookup treats every error
\* but "not found" alike)
LookupResponses == LatestResponses \ {ErrorResponse(400, ErrOther)}

\* the rows of execution e under the call's retrieval parameters
ResultOf(e) == [src |-> e]

\* GET .../results/csv of execution e (the latest one when asked by query id)
ResultsOf(e) ==
    IF e = 0 THEN ErrorResponse(404, ErrNotFound)
    ELSE IF execs[e].state = "executing" THEN ErrorResponse(400, ErrExecuting)
    ELSE IF execs[e].state = "completed"
    THEN Response(200, {}, "", FALSE, "", 0, 0, Some(ResultOf(e)))
    ELSE ErrorResponse(400, ErrOther)

ResultsResponses(by_query, e) ==
    {RateLimited, ErrorResponse(400, ErrOther)} \cup
    {ResultsOf(IF by_query THEN latest ELSE e)}

(***************************************************************************)
(* The pure parts of the client (src/spice/_extract.py).                   *)
(***************************************************************************)
\* _parse_timestamp: the service's timestamp text (here: tenths of a second)
\* to whole seconds
parse_timestamp(timestamp) == timestamp \div 10

Execution(id, has_timestamp, timestamp) ==
    [execution_id |-> id, has_timestamp |-> has_timestamp, timestamp |-> timestamp]

\* a faulty lookup that never accepts an unfinished execution (C18 tells the
\* code from it)
get_latest_execution_finished_only(resp, allow_unfinished) ==
    IF "error" \in resp.keys
    THEN IF resp.error = ErrNotFound
         THEN [raise |-> FALSE, execution |-> None]
         ELSE [raise |-> TRUE, execution |-> None]
    ELSE IF ~resp.is_execution_finished
    THEN [raise |-> FALSE, execution |-> None]
    ELSE [raise |-> FALSE,
          execution |->
              Some(Execution(resp.execution_id, TRUE,
                             Some(parse_timestamp(resp.execution_started_at))))]

\* a faulty lookup that accepts an unfinished execution whatever
\* allow_unfinished says (C33 tells the code from it)
get_latest_execution_unfinished_too(resp, allow_unfinished) ==
    IF "error" \in resp.keys
    THEN IF resp.error = ErrNotFound
         THEN [raise |-> FALSE, execution |-> None]
         ELSE [raise |-> TRUE, execution |-> None]
    ELSE [raise |-> FALSE,
          execution |->
              Some(IF "execution_started_at" \in resp.keys
                   THEN Execution(resp.execution_id, TRUE,
                                  Some(parse_timestamp(resp.execution_started_at)))
                   ELSE Execution(resp.execution_id, FALSE, None))]

\* get_latest_execution, from the response on: [raise, execution]
get_latest_execution(resp, allow_unfinished) ==
    IF "error" \in resp.keys
    THEN IF resp.error = ErrNotFound
         THEN [raise |-> FALSE, execution |-> None]
         ELSE [raise |-> TRUE, execution |-> None]
    ELSE IF ~resp.is_execution_finished /\ ~allow_unfinished
    THEN [raise |-> FALSE, execution |-> None]
    ELSE [raise |-> FALSE,
          execution |->
              Some(IF "execution_started_at" \in resp.keys
                   THEN Execution(resp.execution_id, TRUE,
                                  Some(parse_timestamp(resp.execution_started_at)))
                   ELSE Execution(resp.execution_id, FALSE, None))]

\* _get_query_latest_age, from the response on: [raise, age]
get_query_latest_age(resp, clock) ==
    IF "error" \in resp.keys
    THEN IF resp.error = ErrNotFound
         THEN [raise |-> FALSE, age |-> None]
         ELSE [raise |-> TRUE, age |-> None]
    ELSE IF "execution_started_at" \in resp.keys
    THEN [raise |-> FALSE,
          age |-> Some(clock - parse_timestamp(resp.execution_started_at))]
    ELSE [raise |-> FALSE, age |-> None]

\* query, line 237: whether the age forces a new execution
too_old(age, max_age) == IsNone(age) \/ Val(age) > Val(max_age)

(***************************************************************************)
(* The arguments of a top-level call and what it returns.                  *)
(***************************************************************************)
\* the query id of the calls (the one the tests use)
query_4388 == 4388

\* retrieval parameters without any option set
BaseRetrieval ==
    [limit |-> None, offset |-> None, sample_count |-> None, sort_by |-> None,
     columns |-> None, extras |-> None, types |-> None, all_types |-> None,
     verbose |-> TRUE]

\* the input is a query reference or an execution handle
QueryInput(q) == [kind |-> "query", query |-> q, execution |-> Execution(0, FALSE, None)]
HandleInput(h) == [kind |-> "execution", query |-> 0, execution |-> h]

\* _determine_input_type for an integer query id and for a mapping with an
\* execution_id: <<query_id, execution>>
determine_input_type(query_or_execution) ==
    IF query_or_execution.kind = "query"
    THEN [query_id |-> Some(query_or_execution.query), execution |-> None]
    ELSE [query_id |-> None, execution |-> Some(query_or_execution.execution)]

\* the execute_kwargs and result_kwargs query gathers
execute_kwargs(i) ==
    [query_id |-> determine_input_type(i.query_or_execution).query_id,
     api_key |-> i.api_key, parameters |-> i.parameters,
     performance |-> i.performance]

result_kwargs(i) == i.retrieval

Inputs ==
    [query_or_execution :
         {QueryInput(query_4388)} \cup
         {HandleInput(Execution(1, FALSE, None)), HandleInput(Execution(1, TRUE, Some(1)))},
     refresh : BOOLEAN, max_age : {None, Some(5)}, poll : BOOLEAN,
     cache : BOOLEAN, load_from_cache : BOOLEAN, save_to_cache : BOOLEAN,
     include_execution : BOOLEAN,
     parameters : {None}, api_key : {None}, performance : {"medium"},
     cache_dir : {None}, retrieval : {BaseRetrieval}]

Returned(kind, table, exec) ==
    [kind |-> kind, df |-> table, execution |-> exec, error |-> "", error_id |-> 0]
Raised(msg, id) ==
    [kind |-> "raise", df |-> None, execution |-> None, error |-> msg, error_id |-> id]
NoResult == [kind |-> "none", df |-> None, execution |-> None, error |-> "", error_id |-> 0]

\* one entry of the trace: a request (with the response it got) or a cache access
Event(op, id, resp) == [op |-> op, id |-> id, resp |-> resp]
NoResponse == Response(0, {}, "", FALSE, "", 0, 0, None)

Ops(t) == [k \in DOMAIN t |-> t[k].op]
Count(t, ops) == Cardinality({k \in DOMAIN t : t[k].op \in ops})

\* a faulty load_from_cache that returns the bare table whatever
\* include_execution says (C7 tells the code from it)
load_from_cache_bare_table(fs, found, ek, rk, i) ==
    IF IsNone(found)
    THEN [raise |-> FALSE, read |-> FALSE, result |-> NoResult, execution |-> None]
    ELSE LET p == build_cache_path(Val(found), ek, rk, i.cache_dir)
         IN  IF ~p.ok
             THEN [raise |-> TRUE, read |-> FALSE, result |-> NoResult, execution |-> None]
             ELSE IF path_exists(fs, Val(p.path))
             THEN [raise |-> FALSE, read |-> TRUE,
                   result |-> Returned("table", Some(read_parquet(fs, Val(p.path))), None),
                   execution |-> found]
             ELSE [raise |-> FALSE, read |-> FALSE, result |-> NoResult,
                   execution |-> found]

\* load_from_cache, from the latest execution on: <<cache_result, execution>>
\* or a raise
load_from_cache(fs, found, ek, rk, i) ==
    IF IsNone(found)
    THEN [raise |-> FALSE, read |-> FALSE, result |-> NoResult, execution |-> None]
    ELSE LET p == build_cache_path(Val(found), ek, rk, i.cache_dir)
         IN  IF ~p.ok
             THEN [raise |-> TRUE, read |-> FALSE, result |-> NoResult, execution |-> None]
             ELSE IF path_exists(fs, Val(p.path))
             THEN [raise |-> FALSE, read |-> TRUE,
                   result |->
                       IF i.include_execution
                       THEN Returned("pair", Some(read_parquet(fs, Val(p.path))), found)
                       ELSE Returned("table", Some(read_parquet(fs, Val(p.path))), None),
                   execution |-> found]
             ELSE [raise |-> FALSE, read |-> FALSE, result |-> NoResult,
                   execution |-> found]

\* _process_result needs a latest-execution lookup when it has no execution
\* and either saves or returns the execution
process_needs_latest(exec, i) ==
    /\ IsNone(exec)
    /\ \/ /\ i.cache
          /\ i.save_to_cache
          /\ ~IsNone(execute_kwargs(i).query_id)
       \/ i.include_execution

\* a faulty _process_result that saves even when the call has no query_id
\* (C6 tells the code from it)
process_result_saving_handles(fs, table, exec, i) ==
    LET saving == i.cache /\ i.save_to_cache
        s == save_to_cache(fs, table, Val(exec), execute_kwargs(i), result_kwargs(i),
                           i.cache_dir)
    IN  IF saving /\ ~s.ok
        THEN [files |-> fs, wrote |-> FALSE,
              result |-> Raised("need completion timestamp on execution", 0)]
        ELSE [files |-> IF saving THEN s.files ELSE fs, wrote |-> saving,
              result |-> IF i.include_execution
                         THEN Returned("pair", Some(table), exec)
                         ELSE Returned("table", Some(table), None)]

\* a faulty _process_result that saves whatever save_to_cache says (C32 tells
\* the code from it)
process_result_saving_whatever(fs, table, exec, i) ==
    LET saving == /\ i.cache
                  /\ ~IsNone(exec)
                  /\ ~IsNone(execute_kwargs(i).query_id)
        saved == save_to_cache(fs, table, Val(exec), execute_kwargs(i),
                               result_kwargs(i), i.cache_dir)
    IN  IF saving /\ ~saved.ok
        THEN [files |-> fs, wrote |-> FALSE,
              result |-> Raised("need completion timestamp on execution", 0)]
        ELSE [files |-> IF saving THEN saved.files ELSE fs, wrote |-> saving,
              result |-> IF i.include_execution
                         THEN Returned("pair", Some(table), exec)
                         ELSE Returned("table", Some(table), None)]

\* _process_result with the execution known: [files, result]
process_result(fs, table, exec, i) ==
    LET saving == /\ i.cache
                  /\ i.save_to_cache
                  /\ ~IsNone(execute_kwargs(i).query_id)
        saved == save_to_cache(fs, table, Val(exec), execute_kwargs(i),
                               result_kwargs(i), i.cache_dir)
    IN  IF saving /\ ~saved.ok
        THEN [files |-> fs, wrote |-> FALSE,
              result |-> Raised("need completion timestamp on execution", 0)]
        ELSE [files |-> IF saving THEN saved.files ELSE fs, wrote |-> saving,
              result |-> IF i.include_execution
                         THEN Returned("pair", Some(table), exec)
                         ELSE Returned("table", Some(table), None)]

(***************************************************************************)
(* The top-level call: query (async_query takes the same steps).           *)
(***************************************************************************)
\* the initial service: no execution of the query, or one (id 1) in any state,
\* of age 8 s or 5 s at `now` (older than max_age, not older); the
\* cache holds the result of a completed execution or nothing
StartedAts == {25, 55}

InitialExecs ==
    {[e \in ExecIds |-> [state |-> "none", started |-> 0]]} \cup
    {[e \in ExecIds |-> IF e = 1 THEN [state |-> s, started |-> t]
                        ELSE [state |-> "none", started |-> 0]] :
        s \in {"executing", "completed", "failed", "cancelled"}, t \in StartedAts}

CachedBefore(ex, i) ==
    IF ex[1].state = "completed" /\ i.query_or_execution.kind = "query"
    THEN {{}, {[path |-> Val(build_cache_path(
                                 Execution(1, TRUE, Some(parse_timestamp(ex[1].started))),
                                 execute_kwargs(i), result_kwargs(i), i.cache_dir).path),
                df |-> ResultOf(1)]}}
    ELSE {{}}

Init ==
    /\ execs \in InitialExecs
    /\ latest = IF execs[1].state = "none" THEN 0 ELSE 1
    /\ now = 10
    /\ inp \in Inputs
    /\ files \in CachedBefore(execs, inp)
    /\ files_before = files
    /\ pc = "start"
    /\ refresh = inp.refresh
    /\ execution = None
    /\ gr_query = FALSE
    /\ gr_execution = None
    /\ df = None
    /\ result = NoResult
    /\ trace = <<>>
    /\ poll_entry = None
    /\ written = {}
    /\ frame = None

Done(r) == pc' = "done" /\ result' = r

\* a faulty continuation that fetches the latest result even when refresh is
\* set (C5 tells the code from it)
AfterLoad_ignoring_refresh(i, rf) ==
    IF ~IsNone(i.max_age) /\ ~rf THEN "age" ELSE "results"

\* a faulty continuation that submits whatever the service holds (C38 tells
\* the code from it)
AfterLoad_always_execute(i, rf) ==
    IF ~IsNone(i.max_age) /\ ~rf THEN "age" ELSE "execute"

\* query, lines 235-243: what follows the cache read
AfterLoad(i, rf) ==
    IF ~IsNone(i.max_age) /\ ~rf THEN "age"
    ELSE IF ~rf THEN "results" ELSE "execute"

\* query, lines 188-256 up to the first request
Query ==
    /\ pc = "start"
    /\ LET t == determine_input_type(inp.query_or_execution)
       IN  /\ execution' = t.execution
           /\ gr_execution' = IF IsNone(t.query_id) THEN t.execution ELSE None
           /\ gr_query' = ~IsNone(t.query_id)
           /\ poll_entry' = IF IsNone(t.query_id) /\ inp.poll THEN t.execution ELSE None
           /\ IF ~IsNone(t.query_id)
              THEN /\ pc' = IF inp.cache /\ inp.load_from_cache /\ ~refresh
                            THEN "load" ELSE AfterLoad(inp, refresh)
                   /\ result' = result
              ELSE IF inp.poll
              THEN pc' = "poll" /\ result' = result
              ELSE Done(Returned("execution", None, t.execution))
    /\ UNCHANGED <<execs, latest, now, written, frame, files, files_before, inp, refresh,
                   df, trace>>

\* query, lines 227-234: load_from_cache (the latest-execution request and the
\* cache read)
LoadFromCache ==
    /\ pc = "load"
    /\ \E resp \in LatestResponses :
         LET found == get_latest_execution(resp, FALSE)
             hit == load_from_cache(files, found.execution, execute_kwargs(inp),
                                    result_kwargs(inp), inp)
         IN  /\ trace' = trace \o <<Event("latest", 0, resp)>> \o
                    (IF ~found.raise /\ ~IsNone(found.execution) /\ ~hit.raise
                     THEN <<Event("cache_exists", 0, NoResponse)>> ELSE <<>>) \o
                    (IF ~found.raise /\ hit.read
                     THEN <<Event("cache_read", 0, NoResponse)>> ELSE <<>>)
             /\ IF found.raise THEN Done(Raised(resp.error, 0)) /\ execution' = execution
                ELSE IF hit.raise
                THEN /\ Done(Raised("need completion timestamp on execution", 0))
                     /\ execution' = execution
                ELSE IF hit.read THEN Done(hit.result) /\ execution' = execution
                ELSE /\ execution' = IF IsNone(execution) /\ ~IsNone(hit.execution)
                                     THEN hit.execution ELSE execution
                     /\ pc' = AfterLoad(inp, refresh)
                     /\ result' = result
    /\ UNCHANGED <<execs, latest, now, written, frame, files, files_before, inp, refresh,
                   gr_query, gr_execution, df, poll_entry>>

\* query, lines 235-238: _get_query_latest_age and the max_age test
GetQueryLatestAge ==
    /\ pc = "age"
    /\ \E resp \in LatestResponses :
         LET r == get_query_latest_age(resp, now)
         IN  /\ trace' = trace \o <<Event("age", 0, resp)>>
             /\ IF r.raise THEN Done(Raised(resp.error, 0)) /\ refresh' = refresh
                ELSE /\ refresh' = too_old(r.age, inp.max_age)
                     /\ pc' = IF refresh' THEN "execute" ELSE "results"
                     /\ result' = result
    /\ UNCHANGED <<execs, latest, now, written, frame, files, files_before, inp,
                   execution, gr_query, gr_execution, df, poll_entry>>

\* _process_result up to its latest-execution lookup, or to its end; tr is the
\* trace up to the call
ProcessResult(table, tr) ==
    IF process_needs_latest(execution, inp)
    THEN /\ df' = Some(table)
         /\ pc' = "process"
         /\ trace' = tr
         /\ UNCHANGED <<files, result>>
    ELSE LET r == process_result(files, table, execution, inp)
         IN  /\ files' = r.files
             /\ trace' = IF r.wrote
                         THEN tr \o <<Event("cache_write", Val(execution).execution_id,
                                            NoResponse)>>
                         ELSE tr
             /\ Done(r.result)
             /\ df' = df

\* _process_result, lines 500-503 and 509-512: the lookup of the latest
\* execution, then the save and the return
ProcessResultLatest ==
    /\ pc = "process"
    /\ \E resp \in LatestResponses :
         LET found == get_latest_execution(resp, FALSE)
             r == process_result(files, Val(df), found.execution, inp)
             tr == trace \o <<Event("latest", 0, resp)>>
         IN  IF found.raise
             THEN Done(Raised(resp.error, 0)) /\ trace' = tr /\ files' = files
             ELSE IF IsNone(found.execution)
             THEN /\ Done(Raised("could not get execution", 0))
                  /\ trace' = tr
                  /\ files' = files
             ELSE /\ files' = r.files
                  /\ trace' = IF r.wrote
                              THEN tr \o <<Event("cache_write",
                                                 Val(found.execution).execution_id,
                                                 NoResponse)>>
                              ELSE tr
                  /\ Done(r.result)
    /\ UNCHANGED <<execs, latest, now, written, frame, files_before, inp, refresh,
                   execution, gr_query, gr_execution, df, poll_entry>>

\* a faulty request id that names the query after a poll of the call too (C17
\* tells the code from it)
FetchId_of_query == IF gr_query \/ inp.poll THEN 0 ELSE Val(gr_execution).execution_id

\* the id a result request names: 0 for the query id, else the execution id
FetchId == IF gr_query THEN 0 ELSE Val(gr_execution).execution_id

\* _get_results, lines 839-924: the first request for the results and the
\* handling of its response (the call of line 240 when gr_query, else the one
\* of line 250; a retry after 'still running' is the same request again)
GetResults ==
    /\ pc = "results"
    /\ Count(trace, {"results"}) < MaxFetch
    /\ \E resp \in ResultsResponses(gr_query, FetchId) :
         LET tr == trace \o <<Event("results", FetchId, resp)>>
         IN  IF "error" \in resp.keys
             THEN /\ trace' = tr
                  /\ UNCHANGED <<files, df>>
                  /\ IF resp.error = ErrNotFound
                     THEN \* returns None
                          /\ poll_entry' = poll_entry
                          /\ IF gr_query
                             THEN pc' = "execute" /\ result' = result
                             ELSE Done(Raised("no successful execution for query", 0))
                     ELSE IF resp.error = ErrExecuting
                     THEN /\ pc' = IF IsNone(gr_execution) THEN "latest" ELSE "gr_poll"
                          /\ poll_entry' = gr_execution
                          /\ result' = result
                     ELSE Done(Raised(resp.error, 0)) /\ poll_entry' = poll_entry
             ELSE ProcessResult(Val(resp.table), tr) /\ poll_entry' = poll_entry
    /\ UNCHANGED <<execs, latest, now, written, frame, files_before, inp, refresh,
                   execution, gr_query, gr_execution>>

\* _get_results, lines 889-901: the execution is not known, look up the latest
\* one, unfinished allowed
GetResultsLatest ==
    /\ pc = "latest"
    /\ \E resp \in LatestResponses :
         LET found == get_latest_execution(resp, TRUE)
         IN  /\ trace' = trace \o <<Event("latest", 0, resp)>>
             /\ IF found.raise
                THEN /\ Done(Raised(resp.error, 0))
                     /\ UNCHANGED <<gr_execution, poll_entry>>
                ELSE IF IsNone(found.execution)
                THEN /\ Done(Raised("could not detect execution", 0))
                     /\ UNCHANGED <<gr_execution, poll_entry>>
                ELSE /\ gr_execution' = found.execution
                     /\ poll_entry' = found.execution
                     /\ pc' = "gr_poll"
                     /\ result' = result
    /\ UNCHANGED <<execs, latest, now, written, frame, files, files_before, inp, refresh,
                   execution, gr_query, df>>

\* _execute, lines 755-762: the submission
Execute ==
    /\ pc = "execute"
    /\ \/ \E resp \in {RateLimited, ErrorResponse(400, ErrOther)} :
            /\ trace' = trace \o <<Event("submit", 0, resp)>>
            /\ Done(Raised(resp.error, 0))
            /\ UNCHANGED <<execs, latest, execution, gr_query, gr_execution, poll_entry>>
       \/ \E e \in ExecIds :
            /\ execs[e].state = "none"
            /\ \A d \in ExecIds : d < e => execs[d].state # "none"
            /\ execs' = [execs EXCEPT ![e] = [state |-> "executing", started |-> now * 10]]
            /\ latest' = e
            /\ trace' = trace \o
                   <<Event("submit", e,
                           Response(200, {"execution_id", "state"}, "", FALSE,
                                    "QUERY_STATE_PENDING", e, 0, None))>>
            /\ execution' = Some(Execution(e, FALSE, None))
            /\ gr_query' = FALSE
            /\ gr_execution' = execution'
            /\ IF inp.poll
               THEN pc' = "poll" /\ poll_entry' = execution' /\ result' = result
               ELSE /\ Done(Returned("execution", None, execution'))
                    /\ poll_entry' = poll_entry
    /\ UNCHANGED <<now, written, frame, files, files_before, inp, refresh, df>>

\* faulty pollers: one that stores execution_started_at unparsed (C8 tells the
\* code from it), one that takes a failed execution for a finished one (C9),
\* one that gives up on HTTP 429 (C10)
poll_execution_raw_timestamp(exec, resp) ==
    IF "is_execution_finished" \notin resp.keys /\ resp.status_code = 429
    THEN [next |-> "continue", execution |-> exec, error |-> "", sleep |-> "backoff"]
    ELSE IF "is_execution_finished" \notin resp.keys
    THEN [next |-> "raise", execution |-> exec, error |-> "KeyError", sleep |-> ""]
    ELSE IF resp.is_execution_finished
    THEN IF resp.state = "QUERY_STATE_FAILED"
         THEN [next |-> "raise", execution |-> exec, error |-> "QUERY FAILED",
               sleep |-> ""]
         ELSE [next |-> "break",
               execution |-> Execution(exec.execution_id, TRUE,
                                       Some(resp.execution_started_at)),
               error |-> "", sleep |-> ""]
    ELSE [next |-> "continue", execution |-> exec, error |-> "", sleep |-> "interval"]

poll_execution_failed_breaks(exec, resp) ==
    IF "is_execution_finished" \notin resp.keys /\ resp.status_code = 429
    THEN [next |-> "continue", execution |-> exec, error |-> "", sleep |-> "backoff"]
    ELSE IF "is_execution_finished" \notin resp.keys
    THEN [next |-> "raise", execution |-> exec, error |-> "KeyError", sleep |-> ""]
    ELSE IF resp.is_execution_finished
    THEN [next |-> "break",
          execution |-> Execution(exec.execution_id, TRUE,
                                  Some(parse_timestamp(resp.execution_started_at))),
          error |-> "", sleep |-> ""]
    ELSE [next |-> "continue", execution |-> exec, error |-> "", sleep |-> "interval"]

poll_execution_raising_on_429(exec, resp) ==
    IF "is_execution_finished" \notin resp.keys
    THEN [next |-> "raise", execution |-> exec, error |-> "KeyError", sleep |-> ""]
    ELSE IF resp.is_execution_finished
    THEN IF resp.state = "QUERY_STATE_FAILED"
         THEN [next |-> "raise", execution |-> exec, error |-> "QUERY FAILED",
               sleep |-> ""]
         ELSE [next |-> "break",
               execution |-> Execution(exec.execution_id, TRUE,
                                       Some(parse_timestamp(resp.execution_started_at))),
               error |-> "", sleep |-> ""]
    ELSE [next |-> "continue", execution |-> exec, error |-> "", sleep |-> "interval"]

\* one pass of the loop of _poll_execution / _async_poll_execution on a status
\* response: "continue" (sleep, poll again), "break" (return, the timestamp
\* set) or "raise"
poll_execution(exec, resp) ==
    IF "is_execution_finished" \notin resp.keys /\ resp.status_code = 429
    THEN [next |-> "continue", execution |-> exec, error |-> "", sleep |-> "backoff"]
    ELSE IF "is_execution_finished" \notin resp.keys
    THEN [next |-> "raise", execution |-> exec, error |-> "KeyError", sleep |-> ""]
    ELSE IF resp.is_execution_finished
    THEN IF resp.state = "QUERY_STATE_FAILED"
         THEN [next |-> "raise", execution |-> exec, error |-> "QUERY FAILED",
               sleep |-> ""]
         ELSE IF "execution_started_at" \notin resp.keys
         THEN [next |-> "raise", execution |-> exec, error |-> "KeyError", sleep |-> ""]
         ELSE [next |-> "break",
               execution |-> Execution(exec.execution_id, TRUE,
                                       Some(parse_timestamp(resp.execution_started_at))),
               error |-> "", sleep |-> ""]
    ELSE [next |-> "continue", execution |-> exec, error |-> "", sleep |-> "interval"]

\* the status responses that left the poller in its loop
Waits(t) ==
    Cardinality({k \in DOMAIN t :
                    /\ t[k].op = "status"
                    /\ poll_execution(Execution(t[k].id, FALSE, None), t[k].resp).next
                           = "continue"})

\* _poll_execution: one status request and the handling of its response, from
\* query (line 249, pc "poll") or from _get_results (line 904, pc "gr_poll")
PollExecution ==
    /\ pc \in {"poll", "gr_poll"}
    /\ LET target == IF pc = "poll" THEN Val(execution) ELSE Val(gr_execution)
       IN  \E resp \in StatusResponses(target.execution_id) :
             LET step == poll_execution(target, resp)
             IN  /\ trace' = trace \o <<Event("status", target.execution_id, resp)>>
                 /\ IF step.next = "continue"
                    THEN /\ Waits(trace) < MaxPolls
                         /\ UNCHANGED <<pc, result, execution, gr_execution, gr_query>>
                    ELSE /\ IF step.next = "raise"
                            THEN Done(Raised(step.error, target.execution_id))
                            ELSE pc' = "results" /\ result' = result
                         /\ gr_execution' = Some(step.execution)
                         \* the call of line 250 passes query's own execution
                         /\ execution' = IF pc = "poll" \/ ~gr_query
                                         THEN Some(step.execution) ELSE execution
                         /\ gr_query' = IF pc = "poll" THEN FALSE ELSE gr_query
    /\ UNCHANGED <<execs, latest, now, written, frame, files, files_before, inp, refresh,
                   df, poll_entry>>

(***************************************************************************)
(* The service's own steps while the call runs.                            *)
(***************************************************************************)
\* an execution ends
ServiceFinish ==
    /\ pc \notin {"start", "done"}
    /\ \E e \in ExecIds, s \in {"completed", "failed", "cancelled"} :
         /\ execs[e].state = "executing"
         /\ execs' = [execs EXCEPT ![e].state = s]
    /\ UNCHANGED <<latest, now, written, frame, files, files_before, inp, pc, refresh,
                   execution, gr_query, gr_execution, df, result, trace, poll_entry>>

Next ==
    \/ Query
    \/ LoadFromCache
    \/ GetQueryLatestAge
    \/ GetResults
    \/ GetResultsLatest
    \/ ProcessResultLatest
    \/ Execute
    \/ PollExecution
    \/ ServiceFinish

Spec == Init /\ [][Next]_vars

\* a status request that the service answers with is_execution_finished true
PollFinished ==
    /\ PollExecution
    /\ "is_execution_finished" \in trace'[Len(trace')].resp.keys
    /\ trace'[Len(trace')].resp.is_execution_finished

\* The call under a service that makes progress: the poller's thread keeps
\* running (its loop has no exit of its own), every execution ends, and a
\* status request that can be answered with a finished status eventually is.
FairSpec ==
    /\ Spec
    /\ WF_vars(PollExecution)
    /\ WF_vars(ServiceFinish)
    /\ SF_vars(PollFinished)

(***************************************************************************)
(* The cache on its own: save_to_cache called any number of times while    *)
(* the service may start new executions, then load_from_cache.  The calls  *)
(* saved in one behaviour differ pairwise in a single argument.  A load    *)
(* leaves the directory as it found it, so what a later call does is what  *)
(* it does without the load before it: behaviours end with the load.       *)
(***************************************************************************)
\* the arguments of a top-level call with every option at its default
DefaultInput ==
    [query_or_execution |-> QueryInput(query_4388), refresh |-> FALSE, max_age |-> None,
     poll |-> TRUE, cache |-> TRUE, load_from_cache |-> TRUE, save_to_cache |-> TRUE,
     include_execution |-> FALSE, parameters |-> None, api_key |-> None,
     performance |-> "medium", cache_dir |-> None, retrieval |-> BaseRetrieval]

\* retrievals that set one option
Retrievals ==
    {[BaseRetrieval EXCEPT !.limit = Some(1)],
     [BaseRetrieval EXCEPT !.offset = Some(1)],
     [BaseRetrieval EXCEPT !.sample_count = Some(1)],
     [BaseRetrieval EXCEPT !.sort_by = Some(1)],
     [BaseRetrieval EXCEPT !.columns = Some(<<1>>)],
     [BaseRetrieval EXCEPT !.extras = Some(<<<<1, 1>>>>)],
     [BaseRetrieval EXCEPT !.types = TypesList(<<1>>)],
     [BaseRetrieval EXCEPT !.types = TypesDict(<<<<1, 1>>>>)],
     [BaseRetrieval EXCEPT !.all_types = TypesList(<<1>>)]}

\* calls that differ from the default in one argument that reaches the cache
CacheInputs ==
    {DefaultInput} \cup
    {[DefaultInput EXCEPT !.retrieval = rk] : rk \in Retrievals} \cup
    {[DefaultInput EXCEPT !.parameters = Some(<<<<1, 1>>>>)],
     [DefaultInput EXCEPT !.query_or_execution = QueryInput(query_4388 + 1)],
     [DefaultInput EXCEPT !.cache_dir = Some(default_cache_dir + 1)]}

\* the tables written
Tables == {ResultOf(e) : e \in 1..2}

\* the arguments of one call into the cache
CacheCall(ex, ek, rk, cache_dir) ==
    [execution |-> ex, execute_kwargs |-> ek, result_kwargs |-> rk, cache_dir |-> cache_dir]

\* the execution of id e as the lookup of the latest execution describes it
Known(e) == Execution(e, TRUE, Some(parse_timestamp(execs[e].started)))

\* save_to_cache is called for the default call and an execution of the
\* service or a handle without a timestamp, or for another call and the
\* service's first execution
SaveCalls ==
    {CacheCall(ex, execute_kwargs(DefaultInput), result_kwargs(DefaultInput),
               DefaultInput.cache_dir) :
        ex \in {Known(e) : e \in {e \in ExecIds : execs[e].state = "completed"}}
               \cup {Execution(1, FALSE, None)}} \cup
    {CacheCall(Known(1), execute_kwargs(i), result_kwargs(i), i.cache_dir) :
        i \in CacheInputs}

InitCache ==
    /\ execs = [e \in ExecIds |-> IF e = 1 THEN [state |-> "completed", started |-> 55]
                                  ELSE [state |-> "none", started |-> 0]]
    /\ latest = 1
    /\ now = 10
    /\ inp = DefaultInput
    /\ files = {}
    /\ files_before = {}
    /\ pc = "start"
    /\ refresh = FALSE
    /\ execution = None
    /\ gr_query = FALSE
    /\ gr_execution = None
    /\ df = None
    /\ result = NoResult
    /\ trace = <<>>
    /\ poll_entry = None
    /\ written = {}
    /\ frame = None

\* the arguments in which two calls into the cache differ
Differences(c1, c2) ==
    {f \in {"limit", "offset", "sample_count", "sort_by", "columns", "extras", "types",
            "all_types"} : c1.result_kwargs[f] # c2.result_kwargs[f]} \cup
    {f \in {"parameters", "query_id"} : c1.execute_kwargs[f] # c2.execute_kwargs[f]} \cup
    {f \in {"execution_id", "timestamp"} : c1.execution[f] # c2.execution[f]} \cup
    {f \in {"cache_dir"} : c1[f] # c2[f]}

\* the number of save_to_cache calls completed so far
RECURSIVE Saves(_)
Saves(ws) ==
    IF ws = {} THEN 0
    ELSE LET w == CHOOSE w \in ws : TRUE IN w.saves + Saves(ws \ {w})

\* how often save_to_cache completed for call c
SavesOf(ws, c) == IF \E w \in ws : w.call = c THEN (CHOOSE w \in ws : w.call = c).saves ELSE 0

\* one call of save_to_cache
CacheSave ==
    /\ pc # "loaded"
    /\ Saves(written) < MaxWrites
    /\ \E c \in SaveCalls, table \in Tables :
         \* the calls of one behaviour differ from one another in one argument
         /\ \A w \in written : Cardinality(Differences(w.call, c)) <= 1
         /\ LET s == save_to_cache(files, table, c.execution, c.execute_kwargs,
                                c.result_kwargs, c.cache_dir)
            IN  /\ files' = s.files
                /\ written' = IF s.ok
                              THEN {w \in written : w.call # c} \cup
                                   {[call |-> c, df |-> table,
                                     saves |-> SavesOf(written, c) + 1]}
                              ELSE written
                /\ result' = IF s.ok THEN NoResult
                             ELSE Raised("need completion timestamp on execution", 0)
    /\ pc' = "saved"
    /\ UNCHANGED <<execs, latest, now, files_before, inp, refresh, execution, gr_query,
                   gr_execution, df, trace, poll_entry, frame>>

\* one call of load_from_cache: the lookup of the latest execution, then the read
CacheLoad ==
    /\ pc # "loaded"
    /\ \E i \in CacheInputs \cup {[DefaultInput EXCEPT !.include_execution = TRUE]},
          resp \in LookupResponses :
         LET found == get_latest_execution(resp, FALSE)
             load == load_from_cache(files, found.execution, execute_kwargs(i),
                                     result_kwargs(i), i)
         IN  /\ inp' = i
             /\ trace' = <<Event("latest", latest, resp)>>
             /\ result' = IF found.raise \/ load.raise THEN Raised(resp.error, 0)
                          ELSE load.result
             /\ execution' = IF found.raise \/ load.raise THEN None ELSE load.execution
    /\ pc' = "loaded"
    /\ UNCHANGED <<execs, latest, now, files, files_before, refresh, gr_query,
                   gr_execution, df, poll_entry, written, frame>>

\* the service runs the query again: a new execution becomes the latest one
NewExecution ==
    /\ pc # "loaded"
    /\ latest < MaxExec
    /\ \E s \in {"executing", "completed"} :
         execs' = [execs EXCEPT ![latest + 1] = [state |-> s, started |-> 55]]
    /\ latest' = latest + 1
    /\ UNCHANGED <<now, files, files_before, inp, pc, refresh, execution, gr_query,
                   gr_execution, df, result, trace, poll_entry, written, frame>>

NextCache ==
    \/ CacheSave
    \/ CacheLoad
    \/ NewExecution

SpecCache == InitCache /\ [][NextCache]_vars

(***************************************************************************)
(* The poller on its own, with its waits: _poll_execution called on an     *)
(* execution of the service.                                               *)
(***************************************************************************)
\* a duration in seconds, as the fraction num / den
Seconds(num, den) == [num |-> num, den |-> den]
Leq(a, b) == a.num * b.den <= b.num * a.den
Times(a, u) == [num |-> a.num * u.num, den |-> a.den * u.den]

\* values of random.uniform(1, 2): both ends and the middle
Uniform12 == {Seconds(2, 2), Seconds(3, 2), Seconds(4, 2)}

\* the poll_interval of the call: query's default (1.0) and a shorter one
PollIntervals == {Seconds(1, 1), Seconds(1, 2)}

\* a faulty backoff that divides by the random factor (C11 tells the code from it)
backoff_dividing(sleep_amount, u) == Times(sleep_amount, Seconds(u.den, u.num))

\* line 1229: sleep_amount = sleep_amount * random.uniform(1, 2)
backoff(sleep_amount, u) == Times(sleep_amount, u)

\* a time.sleep of the poller: after HTTP 429 (kind "backoff") or at the end
\* of a pass that found the execution unfinished (kind "interval", at most
\* poll_interval)
Sleep(kind, amount) ==
    [op |-> "sleep", id |-> 0, resp |-> NoResponse, kind |-> kind, amount |-> amount]

InitPoll ==
    /\ execs \in {[e \in ExecIds |-> IF e = 1 THEN [state |-> s, started |-> 55]
                                     ELSE [state |-> "none", started |-> 0]] :
                     s \in {"executing", "completed", "failed"}}
    /\ latest = 1
    /\ now = 10
    /\ inp = DefaultInput
    /\ files = {}
    /\ files_before = {}
    /\ pc = "poll"
    /\ refresh = FALSE
    /\ execution = Some(Execution(1, FALSE, None))
    /\ gr_query = FALSE
    /\ gr_execution = execution
    /\ df = None
    /\ result = NoResult
    /\ trace = <<>>
    /\ poll_entry = execution
    /\ written = {}
    /\ frame \in {[poll_interval |-> p, sleep_amount |-> p] : p \in PollIntervals}

\* one pass of the loop of _poll_execution: the status request, the handling
\* of its response and the sleep that ends the pass
PollPass ==
    /\ pc = "poll"
    /\ \E resp \in StatusResponses(Val(execution).execution_id), u \in Uniform12 :
         LET step == poll_execution(Val(execution), resp)
             request == Event("status", Val(execution).execution_id, resp)
         IN  /\ step.sleep # "backoff" => u = Seconds(2, 2)
             /\ IF step.next = "continue"
                THEN /\ Waits(trace) < MaxPolls
                     /\ frame' = IF step.sleep = "backoff"
                                 THEN [frame EXCEPT !.sleep_amount = backoff(@, u)]
                                 ELSE frame
                     /\ trace' = trace \o
                            <<request,
                              Sleep(step.sleep, IF step.sleep = "backoff"
                                                THEN frame'.sleep_amount
                                                ELSE frame.poll_interval)>>
                     /\ UNCHANGED <<pc, result, execution, gr_execution>>
                ELSE /\ frame' = frame
                     /\ trace' = trace \o <<request>>
                     /\ execution' = Some(step.execution)
                     /\ gr_execution' = execution'
                     /\ Done(IF step.next = "raise"
                             THEN Raised(step.error, Val(execution).execution_id)
                             ELSE Returned("execution", None, execution'))
    /\ UNCHANGED <<execs, latest, now, files, files_before, inp, refresh, gr_query, df,
                   poll_entry, written>>

NextPoll ==
    \/ PollPass
    \/ ServiceFinish

SpecPoll == InitPoll /\ [][NextPoll]_vars

(***************************************************************************)
(* The result retriever with its pages: _get_results on a finished        *)
(* execution, called once or (as test_query_offsets does) for a whole      *)
(* range and then for slices of it.                                        *)
(***************************************************************************)
\* a cell of the CSV body is a text, a sequence of characters
Digits == <<"0", "1", "2", "3", "4", "5", "6", "7", "8", "9">>
IsIntegerText(text) ==
    text # <<>> /\ \A i \in DOMAIN text : \E d \in DOMAIN Digits : Digits[d] = text[i]

RECURSIVE IntegerOf(_)
IntegerOf(text) ==
    IF text = <<>> THEN 0
    ELSE 10 * IntegerOf(SubSeq(text, 1, Len(text) - 1))
         + (CHOOSE d \in DOMAIN Digits : Digits[d] = text[Len(text)]) - 1

\* the values of the second column: a text of digits and one that is not
CellTexts == {<<"4", "2">>, <<"a", "b">>}

\* the result of the execution: column "n" numbers the rows, column "v" holds
\* the given cells
PageColumns == <<<<"n">>, <<"v">>>>
ResultLine(cells, i) == <<<<Digits[i + 1]>>, cells[i]>>

\* the URL of a request for results: the retrieval parameters that matter here
Url(offset, limit) == [offset |-> offset, limit |-> limit]

\* a response to a request for results: the body (lines of cells, the header
\* first), the error of a JSON envelope (None for a CSV body) and the header
\* x-dune-next-uri
Page(text, error, next_uri) == [text |-> text, error |-> error, next_uri |-> next_uri]

\* the error envelope read as text is one line
EnvelopeText(msg) == <<<<"{\"error\": \"", msg, "\"}">>>>

Min(a, b) == IF a <= b THEN a ELSE b

\* GET .../results/csv: the service answers with any non-empty part of the
\* rows asked for (all of them at most), and with a cursor while the result
\* has rows beyond the page; or with an error envelope
PageResponses(cells, url) ==
    LET rest == Len(cells) - url.offset
        asked == IF IsNone(url.limit) THEN rest ELSE Min(rest, Val(url.limit))
        sizes == IF asked <= 0 THEN {0} ELSE 1..asked
    IN  {Page(<<PageColumns>> \o [i \in 1..k |-> ResultLine(cells, url.offset + i)],
              None,
              IF url.offset + k < Len(cells)
              THEN Some(Url(url.offset + k, url.limit)) ELSE None) : k \in sizes}
        \cup {Page(EnvelopeText(ErrOther), Some(ErrOther), None)}

\* infer_type: the type polars reads the column's text as
infer_type(texts) ==
    IF texts # <<>> /\ \A i \in DOMAIN texts : IsIntegerText(texts[i])
    THEN "Int64"
    ELSE IF texts # <<>> /\ \A i \in DOMAIN texts :
                                texts[i] \in {<<"t", "r", "u", "e">>,
                                              <<"f", "a", "l", "s", "e">>}
    THEN "Boolean" ELSE "String"

\* a value of a typed column
Cell(dtype, text) ==
    [dtype |-> dtype,
     int |-> IF dtype = "Int64" THEN IntegerOf(text) ELSE 0,
     str |-> IF dtype = "Int64" THEN <<>> ELSE text]

\* _process_raw_table with types a list or None: the columns of the header,
\* each cast to its type in types or else to the type inferred from this body
process_raw_table(text, types) ==
    LET columns == text[1]
        lines == Tail(text)
        column(c) == [i \in 1..Len(lines) |-> lines[i][c]]
        dtype(c) == IF ~IsNone(types) /\ Len(Val(types)) >= c
                    THEN Val(types)[c] ELSE infer_type(column(c))
    IN  [columns |-> columns,
         dtypes |-> [c \in 1..Len(columns) |-> dtype(c)],
         rows |-> [i \in 1..Len(lines) |->
                      [c \in 1..Len(columns) |-> Cell(dtype(c), lines[i][c])]]]

RECURSIVE Flatten(_)
Flatten(seqs) == IF seqs = <<>> THEN <<>> ELSE Head(seqs) \o Flatten(Tail(seqs))

\* pl.concat (how = "vertical"): the rows of the frames in order; frames whose
\* columns or types differ are an error
concat(frames) ==
    IF \A i \in DOMAIN frames :
           frames[i].columns = frames[1].columns /\ frames[i].dtypes = frames[1].dtypes
    THEN [raise |-> FALSE, error |-> "",
          table |-> Some([frames[1] EXCEPT
                             !.rows = Flatten([i \in DOMAIN frames |-> frames[i].rows])])]
    ELSE [raise |-> TRUE, error |-> "SchemaError", table |-> None]

\* DataFrame.limit
limit_rows(table, n) == [table EXCEPT !.rows = SubSeq(@, 1, Min(n, Len(@)))]

\* a faulty loop test that follows the cursor whatever the row count (C15 tells
\* the code from it)
more_pages_whatever_the_count(response, n_rows, limit) == ~IsNone(response.next_uri)

\* _get_results, line 933: the test of the loop over the pages
more_pages(response, n_rows, limit) ==
    ~IsNone(response.next_uri) /\ n_rows < limit

\* _get_results, line 944: df = pl.concat([df, *pages]).limit(limit)
all_pages(first, pages, limit) ==
    LET whole == concat(<<first>> \o pages)
    IN  IF whole.raise THEN whole
        ELSE [whole EXCEPT !.table = Some(limit_rows(Val(whole.table), limit))]

\* bound on the rows of the execution's result
MaxRows == 3

\* the calls of one run: one fetch, or the fetch of [0, N) and then of the
\* two slices [0, s) and [s, N)
FetchCall(limit, offset) == [limit |-> limit, offset |-> offset]
FetchCalls ==
    {<<FetchCall(l, o)>> :
        l \in {None} \cup {Some(n) : n \in 1..(MaxRows + 1)}, o \in 0..(MaxRows - 1)}
    \cup UNION {{<<FetchCall(Some(N), 0), FetchCall(Some(s), 0),
                     FetchCall(Some(N - s), s)>> : s \in 1..(N - 1)} : N \in 2..MaxRows}

InitPages ==
    /\ execs = [e \in ExecIds |-> IF e = 1 THEN [state |-> "completed", started |-> 55]
                                   ELSE [state |-> "none", started |-> 0]]
    /\ latest = 1
    /\ now = 10
    /\ inp = DefaultInput
    /\ files = {}
    /\ files_before = {}
    /\ pc = "results"
    /\ refresh = FALSE
    /\ execution = Some(Known(1))
    /\ gr_query = FALSE
    /\ gr_execution = execution
    /\ df = None
    /\ result = NoResult
    /\ trace = <<>>
    /\ poll_entry = None
    /\ written = {}
    /\ frame \in {[cells |-> cells, types |-> types, calls |-> calls, i |-> 1,
                   tables |-> <<>>, response |-> None, df |-> None, n_rows |-> 0,
                   pages |-> <<>>] :
                     cells \in [1..MaxRows -> CellTexts],
                     types \in {None, Some(<<"Int64", "String">>)},
                     calls \in FetchCalls}

\* the return (or raise) of _get_results: out is [raise, error, table]; the
\* next call of the run follows
FetchEnds(out) ==
    /\ frame' = [frame EXCEPT !.tables = Append(@, out), !.i = @ + 1,
                              !.response = None, !.df = None, !.n_rows = 0,
                              !.pages = <<>>]
    /\ pc' = IF frame.i = Len(frame.calls) THEN "done" ELSE "results"

PageEvent(op, url, resp) == [op |-> op, id |-> frame.i, url |-> url, resp |-> resp]

\* _get_results, lines 862-946 on a finished execution: the first request and,
\* when no further page is due, the return
FetchFirstPage ==
    /\ pc = "results"
    /\ LET call == frame.calls[frame.i]
           url == Url(call.offset, call.limit)
       IN  \E resp \in PageResponses(frame.cells, url) :
             /\ trace' = Append(trace, PageEvent("results", url, resp))
             /\ IF ~IsNone(resp.error)
                THEN FetchEnds([raise |-> TRUE, error |-> Val(resp.error), table |-> None])
                ELSE LET first == process_raw_table(resp.text, frame.types)
                     IN  IF IsNone(call.limit)
                         THEN FetchEnds([raise |-> FALSE, error |-> "",
                                         table |-> Some(first)])
                         ELSE IF more_pages(resp, Len(first.rows), Val(call.limit))
                         THEN /\ frame' = [frame EXCEPT !.response = Some(resp),
                                                        !.df = Some(first),
                                                        !.n_rows = Len(first.rows),
                                                        !.pages = <<>>]
                              /\ pc' = "pages"
                         ELSE FetchEnds(all_pages(first, <<>>, Val(call.limit)))
    /\ UNCHANGED <<execs, latest, now, files, files_before, inp, refresh, execution,
                   gr_query, gr_execution, df, result, poll_entry, written>>

\* _get_results, lines 933-946: one pass of the loop over the pages and, when
\* it was the last, the return
FetchNextPage ==
    /\ pc = "pages"
    /\ LET call == frame.calls[frame.i]
           url == Val(Val(frame.response).next_uri)
       IN  \E resp \in PageResponses(frame.cells, url) :
             LET page == process_raw_table(resp.text, frame.types)
                 n_rows == frame.n_rows + Len(page.rows)
                 pages == Append(frame.pages, page)
             IN  /\ trace' = Append(trace, PageEvent("page", url, resp))
                 /\ IF more_pages(resp, n_rows, Val(call.limit))
                    THEN /\ frame' = [frame EXCEPT !.response = Some(resp),
                                                   !.n_rows = n_rows,
                                                   !.pages = pages]
                         /\ pc' = pc
                    ELSE FetchEnds(all_pages(Val(frame.df), pages, Val(call.limit)))
    /\ UNCHANGED <<execs, latest, now, files, files_before, inp, refresh, execution,
                   gr_query, gr_execution, df, result, poll_entry, written>>

NextPages ==
    \/ FetchFirstPage
    \/ FetchNextPage

SpecPages == InitPages /\ [][NextPages]_vars

(***************************************************************************)
(* The call while another client of the service executes the same query.   *)
(***************************************************************************)
\* calls on a query id that go straight to the result fetch
RaceInputs ==
    {i \in Inputs : /\ i.query_or_execution.kind = "query"
                    /\ ~i.cache /\ ~i.refresh /\ IsNone(i.max_age)}

InitRace ==
    /\ execs \in {[e \in ExecIds |-> IF e = 1 THEN [state |-> s, started |-> t]
                                     ELSE [state |-> "none", started |-> 0]] :
                     s \in {"executing", "completed"}, t \in StartedAts}
    /\ latest = 1
    /\ now = 10
    /\ inp \in RaceInputs
    /\ files = {}
    /\ files_before = files
    /\ pc = "start"
    /\ refresh = inp.refresh
    /\ execution = None
    /\ gr_query = FALSE
    /\ gr_execution = None
    /\ df = None
    /\ result = NoResult
    /\ trace = <<>>
    /\ poll_entry = None
    /\ written = {}
    /\ frame = None

\* another client submits the query: the service starts a new execution, which
\* becomes the latest one
OtherClientExecute ==
    /\ pc \notin {"start", "done"}
    /\ \E e \in ExecIds :
         /\ execs[e].state = "none"
         /\ \A d \in ExecIds : d < e => execs[d].state # "none"
         /\ execs' = [execs EXCEPT ![e] = [state |-> "executing", started |-> now * 10]]
         /\ latest' = e
    /\ UNCHANGED <<now, written, frame, files, files_before, inp, pc, refresh,
                   execution, gr_query, gr_execution, df, result, trace, poll_entry>>

NextRace ==
    \/ Query
    \/ GetResults
    \/ GetResultsLatest
    \/ PollExecution
    \/ ServiceFinish
    \/ OtherClientExecute

SpecRace == InitRace /\ [][NextRace]_vars

(***************************************************************************)
(* Concurrent calls into the cache: threads (or processes) that each run   *)
(* save_to_cache or the read of load_from_cache on one cache directory.    *)
(* Here `files` holds the temporary files too, and the content of a file   *)
(* is the sequence of the chunks written to it.                            *)
(***************************************************************************)
\* bound on the concurrent calls
MaxThreads == 3
Threads == 1..MaxThreads

\* the chunks df.write_parquet writes one after the other
parquet_chunks == 2

\* secrets.token_hex(8) of the call of thread t: 64 random bits, taken to be
\* different in different calls
token_hex(t) == t

\* a faulty temporary path that is the cache path itself (C21 tells the code
\* from it)
tmp_path_in_place(cache_path, token) == cache_path

\* save_to_cache, lines 114-116: cache_path + '_tmp_' + secrets.token_hex(8)
tmp_path(cache_path, token) == [tmp_of |-> cache_path, token |-> token]

\* one chunk of a table written by thread t
Chunk(t, table, k) == [writer |-> t, df |-> table, k |-> k]

\* the calls of the threads: the default call and one with a limit, for the
\* service's execution
ThreadCalls ==
    {CacheCall(Known(1), execute_kwargs(i), result_kwargs(i), i.cache_dir) :
        i \in {DefaultInput, [DefaultInput EXCEPT !.retrieval.limit = Some(1)]}}

\* the cache path of the call of thread t
CachePathOf(t) ==
    Val(build_cache_path(frame[t].call.execution, frame[t].call.execute_kwargs,
                         frame[t].call.result_kwargs, frame[t].call.cache_dir).path)

InitWriters ==
    /\ execs = [e \in ExecIds |-> IF e = 1 THEN [state |-> "completed", started |-> 55]
                                  ELSE [state |-> "none", started |-> 0]]
    /\ latest = 1
    /\ now = 10
    /\ inp = DefaultInput
    /\ files = {}
    /\ files_before = {}
    /\ pc = "threads"
    /\ refresh = FALSE
    /\ execution = None
    /\ gr_query = FALSE
    /\ gr_execution = None
    /\ df = None
    /\ result = NoResult
    /\ trace = <<>>
    /\ poll_entry = None
    /\ written = {}
    /\ frame \in [Threads -> [role : {"save", "load"}, pc : {"start"}, call : ThreadCalls,
                              df : Tables, k : {0}, got : {None}]]
    \* one of two threads of the same role and call is the lower-numbered one
    /\ \A s, t \in Threads :
           (s < t /\ frame[s].role = frame[t].role /\ frame[s].call = frame[t].call)
               => frame[s].df = ResultOf(1)

ThreadsUnchanged ==
    UNCHANGED <<execs, latest, now, files_before, inp, pc, refresh, execution,
                gr_query, gr_execution, df, result, trace, poll_entry, written>>

\* save_to_cache, lines 103-117: the path is built, the directory made and the
\* temporary file opened for writing
SaveOpen(t) ==
    /\ frame[t].role = "save" /\ frame[t].pc = "start"
    /\ files' = move_into_place(files, tmp_path(CachePathOf(t), token_hex(t)), <<>>)
    /\ frame' = [frame EXCEPT ![t].pc = "write"]
    /\ ThreadsUnchanged

\* save_to_cache, line 117: df.write_parquet writes the next chunk
SaveWrite(t) ==
    /\ frame[t].role = "save" /\ frame[t].pc = "write"
    /\ LET tmp == tmp_path(CachePathOf(t), token_hex(t))
           k == frame[t].k + 1
       IN  /\ files' = move_into_place(files, tmp,
                           Append(read_parquet(files, tmp), Chunk(t, frame[t].df, k)))
           /\ frame' = [frame EXCEPT ![t].k = k,
                                     ![t].pc = IF k = parquet_chunks THEN "move"
                                               ELSE "write"]
    /\ ThreadsUnchanged

\* save_to_cache, line 118: shutil.move(tmp_path, cache_path), a rename
SaveMove(t) ==
    /\ frame[t].role = "save" /\ frame[t].pc = "move"
    /\ LET tmp == tmp_path(CachePathOf(t), token_hex(t))
       IN  files' = IF tmp = CachePathOf(t) THEN files
                    ELSE move_into_place({f \in files : f.path # tmp}, CachePathOf(t),
                                         read_parquet(files, tmp))
    /\ frame' = [frame EXCEPT ![t].pc = "done"]
    /\ ThreadsUnchanged

\* load_from_cache, line 40: os.path.exists(cache_path)
LoadExists(t) ==
    /\ frame[t].role = "load" /\ frame[t].pc = "start"
    /\ frame' = [frame EXCEPT ![t].pc = IF path_exists(files, CachePathOf(t))
                                        THEN "read" ELSE "done"]
    /\ UNCHANGED files
    /\ ThreadsUnchanged

\* load_from_cache, line 45: pl.read_parquet(cache_path)
LoadRead(t) ==
    /\ frame[t].role = "load" /\ frame[t].pc = "read"
    /\ frame' = [frame EXCEPT ![t].pc = "done",
                              ![t].got = Some(read_parquet(files, CachePathOf(t)))]
    /\ UNCHANGED files
    /\ ThreadsUnchanged

NextWriters ==
    \E t \in Threads :
        \/ SaveOpen(t)
        \/ SaveWrite(t)
        \/ SaveMove(t)
        \/ LoadExists(t)
        \/ LoadRead(t)

SpecWriters == InitWriters /\ [][NextWriters]_vars

(***************************************************************************)
(* Successive top-level calls on one cache directory, while other clients  *)
(* of the service execute the same query.  Here `frame` counts the calls   *)
(* and `written` holds the files the earlier calls saved.                  *)
(***************************************************************************)
\* bound on the calls
MaxCalls == 2

\* calls of query(4388) with the cache in use, reading it first or not
CallInputs == {[DefaultInput EXCEPT !.load_from_cache = b] : b \in BOOLEAN}

InitCalls ==
    /\ execs = [e \in ExecIds |-> IF e = 1 THEN [state |-> "completed", started |-> 55]
                                  ELSE [state |-> "none", started |-> 0]]
    /\ latest = 1
    /\ now = 10
    /\ inp \in CallInputs
    /\ files = {}
    /\ files_before = files
    /\ pc = "start"
    /\ refresh = inp.refresh
    /\ execution = None
    /\ gr_query = FALSE
    /\ gr_execution = None
    /\ df = None
    /\ result = NoResult
    /\ trace = <<>>
    /\ poll_entry = None
    /\ written = {}
    /\ frame = [call |-> 1]

\* the files the running call has saved: [path, df]
SavedByCall ==
    {[path |-> f.path, df |-> f.df] :
        f \in {g \in files : \E k \in DOMAIN trace :
                                 /\ trace[k].op = "cache_write"
                                 /\ g.path.execution_id = trace[k].id}}

\* the call has ended and the program calls query again
CallAgain ==
    /\ pc = "done"
    /\ frame.call < MaxCalls
    /\ frame' = [call |-> frame.call + 1]
    /\ written' = written \cup SavedByCall
    /\ inp' \in CallInputs
    /\ files_before' = files
    /\ pc' = "start"
    /\ refresh' = inp'.refresh
    /\ execution' = None
    /\ gr_query' = FALSE
    /\ gr_execution' = None
    /\ df' = None
    /\ result' = NoResult
    /\ trace' = <<>>
    /\ poll_entry' = None
    /\ UNCHANGED <<execs, latest, now, files>>

NextCalls ==
    \/ Query
    \/ LoadFromCache
    \/ GetResults
    \/ GetResultsLatest
    \/ ProcessResultLatest
    \/ PollExecution
    \/ ServiceFinish
    \/ OtherClientExecute
    \/ CallAgain

SpecCalls == InitCalls /\ [][NextCalls]_vars

(***************************************************************************)
(* Two top-level calls for the same execution, seen from the cache: the    *)
(* save of the first and the cache read of the second.  Here `frame` holds *)
(* the arguments of the two calls.                                         *)
(***************************************************************************)
\* a mapping of two entries in both insertion orders, or none; the entries of a
\* types mapping are <<column name, type>>
TwoEntries == <<<<1, 1>>, <<2, 2>>>>
Reversed(m) == [k \in DOMAIN m |-> m[Len(m) + 1 - k]]
Mappings == {None, Some(TwoEntries), Some(Reversed(TwoEntries))}
TypeArguments ==
    {None, TypesList(<<1, 2>>), TypesDict(TwoEntries), TypesDict(Reversed(TwoEntries))}

\* the arguments of a call: those of query that the model of the call has, and
\* poll_interval
KeyCalls ==
    {[inp |-> [DefaultInput EXCEPT !.parameters = parameters,
                                   !.api_key = api_key,
                                   !.save_to_cache = save,
                                   !.retrieval.extras = extras,
                                   !.retrieval.types = types,
                                   !.retrieval.verbose = verbose],
      poll_interval |-> poll_interval] :
        parameters \in Mappings, extras \in Mappings, types \in TypeArguments,
        api_key \in {None, Some(1)}, verbose \in BOOLEAN, save \in BOOLEAN,
        poll_interval \in PollIntervals}

\* two mappings (or lists) with the same entries
SameEntries(a, b) ==
    /\ IsNone(a) = IsNone(b)
    /\ ~IsNone(a) => {Val(a)[k] : k \in DOMAIN Val(a)} = {Val(b)[k] : k \in DOMAIN Val(b)}

SameTypeEntries(a, b) ==
    /\ IsNone(a) = IsNone(b)
    /\ ~IsNone(a) =>
           /\ Val(a).tag = Val(b).tag
           /\ Val(a).list = Val(b).list
           /\ SameEntries(Some(Val(a).dict), Some(Val(b).dict))

\* two calls that ask for the same data: they differ at most in the order of
\* their mappings and in api_key, verbose, poll_interval and the cache flags
SameData(a, b) ==
    /\ a.inp.query_or_execution = b.inp.query_or_execution
    /\ SameEntries(a.inp.parameters, b.inp.parameters)
    /\ SameEntries(a.inp.retrieval.extras, b.inp.retrieval.extras)
    /\ SameTypeEntries(a.inp.retrieval.types, b.inp.retrieval.types)
    /\ SameTypeEntries(a.inp.retrieval.all_types, b.inp.retrieval.all_types)
    /\ \A f \in {"limit", "offset", "sample_count", "sort_by", "columns"} :
           a.inp.retrieval[f] = b.inp.retrieval[f]

InitKeys ==
    /\ execs = [e \in ExecIds |-> IF e = 1 THEN [state |-> "completed", started |-> 55]
                                  ELSE [state |-> "none", started |-> 0]]
    /\ latest = 1
    /\ now = 10
    /\ inp = DefaultInput
    /\ files = {}
    /\ files_before = {}
    /\ pc = "start"
    /\ refresh = FALSE
    /\ execution = None
    /\ gr_query = FALSE
    /\ gr_execution = None
    /\ df = None
    /\ result = NoResult
    /\ trace = <<>>
    /\ poll_entry = None
    /\ written = {}
    /\ frame \in UNION {{[first |-> a, second |-> b] : b \in {c \in KeyCalls : SameData(a, c)}} :
                            a \in {c \in KeyCalls : c.inp.save_to_cache}}

\* the first call saves the result of the execution (_process_result, line 504)
KeySave ==
    /\ pc = "start"
    /\ inp' = frame.first.inp
    /\ files' = save_to_cache(files, ResultOf(latest), Known(latest), execute_kwargs(inp'),
                              result_kwargs(inp'), inp'.cache_dir).files
    /\ pc' = "saved"
    /\ UNCHANGED <<execs, latest, now, files_before, refresh, execution, gr_query,
                   gr_execution, df, result, trace, poll_entry, written, frame>>

\* the second call reads the cache (query, lines 226-231)
KeyLoad ==
    /\ pc = "saved"
    /\ inp' = frame.second.inp
    /\ LET load == load_from_cache(files, Some(Known(latest)), execute_kwargs(inp'),
                                   result_kwargs(inp'), inp')
       IN  /\ result' = load.result
           /\ execution' = load.execution
    /\ pc' = "loaded"
    /\ UNCHANGED <<execs, latest, now, files, files_before, refresh, gr_query,
                   gr_execution, df, trace, poll_entry, written, frame>>

NextKeys ==
    \/ KeySave
    \/ KeyLoad

SpecKeys == InitKeys /\ [][NextKeys]_vars

(***************************************************************************)
(* The requests for results of query and of async_query for one input.     *)
(* Here `frame` holds the input and the requests each variant has issued.  *)
(***************************************************************************)
\* one key=value of a URL; a flattened mapping entry has the key "key.subkey"
Arg(key, subkey, value) == [key |-> key, subkey |-> subkey, value |-> value]

\* _get_results, lines 822-837: `data`, the result_kwargs without types,
\* all_types and verbose, then performance, then query_parameters
get_results_data(parameters, performance, rk) ==
    <<Arg("limit", None, rk.limit), Arg("offset", None, rk.offset),
      Arg("sample_count", None, rk.sample_count), Arg("sort_by", None, rk.sort_by),
      Arg("columns", None, rk.columns), Arg("extras", None, rk.extras),
      Arg("performance", None, Some(performance))>>
    \o (IF IsNone(parameters) THEN <<>> ELSE <<Arg("query_parameters", None, parameters)>>)

\* _async_get_results, lines 965-979: `data` without performance
async_get_results_data(parameters, performance, rk) ==
    <<Arg("limit", None, rk.limit), Arg("offset", None, rk.offset),
      Arg("sample_count", None, rk.sample_count), Arg("sort_by", None, rk.sort_by),
      Arg("columns", None, rk.columns), Arg("extras", None, rk.extras)>>
    \o (IF IsNone(parameters) THEN <<>> ELSE <<Arg("query_parameters", None, parameters)>>)

IsMapping(arg) == arg.key \in {"extras", "query_parameters", "params"} /\ ~IsNone(arg.value)

\* add_args_to_url: the arguments that are not None, in order
add_args_to_url(url, parameters) ==
    [url |-> url, args |-> SelectSeq(parameters, LAMBDA a : ~IsNone(a.value))]

\* the entries of a mapping argument as arguments "key.subkey"
Subkeys(arg) ==
    [k \in DOMAIN Val(arg.value) |->
        Arg(arg.key, Some(Val(arg.value)[k][1]), Some(Val(arg.value)[k][2]))]

RECURSIVE FlattenMappings(_)
FlattenMappings(data) ==
    IF data = <<>> THEN <<>>
    ELSE (IF IsMapping(Head(data)) THEN Subkeys(Head(data)) ELSE <<>>)
         \o FlattenMappings(Tail(data))

\* get_query_results_url: query_parameters is renamed params and moves last,
\* every mapping is replaced by its entries, which move last
get_query_results_url(query_id, data) ==
    LET renamed ==
            SelectSeq(data, LAMBDA a : a.key # "query_parameters")
            \o [k \in DOMAIN SelectSeq(data, LAMBDA a : a.key = "query_parameters") |->
                   Arg("params", None,
                       SelectSeq(data, LAMBDA a : a.key = "query_parameters")[k].value)]
    IN  add_args_to_url([template |-> "query_results", id |-> query_id],
                        SelectSeq(renamed, LAMBDA a : ~IsMapping(a))
                        \o FlattenMappings(renamed))

get_execution_results_url(execution_id, data) ==
    add_args_to_url([template |-> "execution_results", id |-> execution_id], data)

Get(url) == [method |-> "GET", url |-> url, body |-> None]

\* the request for results of _get_results, lines 838-860
get_results_request(ex, query_id, parameters, performance, rk) ==
    IF ~IsNone(query_id)
    THEN Get(get_query_results_url(Val(query_id),
                                   get_results_data(parameters, performance, rk)))
    ELSE Get(get_execution_results_url(Val(ex).execution_id,
                                       get_results_data(parameters, performance, rk)))

\* the request for results of _async_get_results, lines 980-1004
async_get_results_request(ex, query_id, parameters, performance, rk) ==
    IF ~IsNone(query_id)
    THEN Get(get_query_results_url(Val(query_id),
                                   async_get_results_data(parameters, performance, rk)))
    ELSE Get(get_execution_results_url(Val(ex).execution_id,
                                       async_get_results_data(parameters, performance, rk)))

VariantInputs ==
    {[DefaultInput EXCEPT !.query_or_execution = q, !.parameters = parameters,
                          !.performance = performance, !.retrieval = retrieval] :
        q \in {QueryInput(query_4388), HandleInput(Execution(1, TRUE, Some(5)))},
        parameters \in {None, Some(TwoEntries)},
        performance \in {"medium", "large"},
        retrieval \in {BaseRetrieval, [BaseRetrieval EXCEPT !.limit = Some(1)],
                       [BaseRetrieval EXCEPT !.extras = Some(TwoEntries)]}}

InitVariants ==
    /\ execs = [e \in ExecIds |-> IF e = 1 THEN [state |-> "completed", started |-> 55]
                                  ELSE [state |-> "none", started |-> 0]]
    /\ latest = 1
    /\ now = 10
    /\ inp \in VariantInputs
    /\ files = {}
    /\ files_before = {}
    /\ pc = "variants"
    /\ refresh = FALSE
    /\ execution = None
    /\ gr_query = FALSE
    /\ gr_execution = None
    /\ df = None
    /\ result = NoResult
    /\ trace = <<>>
    /\ poll_entry = None
    /\ written = {}
    /\ frame = [query |-> <<>>, async_query |-> <<>>]

VariantsUnchanged ==
    UNCHANGED <<execs, latest, now, inp, files, files_before, pc, refresh, execution,
                gr_query, gr_execution, df, result, trace, poll_entry, written>>

\* query, line 239: df = _get_results(**execute_kwargs, **result_kwargs)
QueryGetResults ==
    /\ inp.query_or_execution.kind = "query"
    /\ frame.query = <<>>
    /\ frame' = [frame EXCEPT !.query =
                    <<get_results_request(None, Some(execute_kwargs(inp).query_id),
                                          execute_kwargs(inp).parameters,
                                          execute_kwargs(inp).performance,
                                          result_kwargs(inp))>>]
    /\ VariantsUnchanged

\* query, line 250: df = _get_results(execution, api_key, **result_kwargs), for
\* the handle given or the execution submitted; performance has its default
QueryGetExecutionResults ==
    /\ Len(frame.query) = (IF inp.query_or_execution.kind = "query" THEN 1 ELSE 0)
    /\ frame' = [frame EXCEPT !.query =
                    Append(@, get_results_request(Some(Execution(1, TRUE, Some(5))), None,
                                                  None, "medium", result_kwargs(inp)))]
    /\ VariantsUnchanged

\* async_query, line 467
AsyncQueryGetResults ==
    /\ inp.query_or_execution.kind = "query"
    /\ frame.async_query = <<>>
    /\ frame' = [frame EXCEPT !.async_query =
                    <<async_get_results_request(None, Some(execute_kwargs(inp).query_id),
                                                execute_kwargs(inp).parameters,
                                                execute_kwargs(inp).performance,
                                                result_kwargs(inp))>>]
    /\ VariantsUnchanged

\* async_query, line 480
AsyncQueryGetExecutionResults ==
    /\ Len(frame.async_query) = (IF inp.query_or_execution.kind = "query" THEN 1 ELSE 0)
    /\ frame' = [frame EXCEPT !.async_query =
                    Append(@, async_get_results_request(Some(Execution(1, TRUE, Some(5))),
                                                        None, None, "medium",
                                                        result_kwargs(inp)))]
    /\ VariantsUnchanged

NextVariants ==
    \/ QueryGetResults
    \/ QueryGetExecutionResults
    \/ AsyncQueryGetResults
    \/ AsyncQueryGetExecutionResults

SpecVariants == InitVariants /\ [][NextVariants]_vars

(***************************************************************************)
(* The resolution of the input of a call.  A text is a sequence of         *)
(* characters.  Here `frame` holds the input and what it resolves to.      *)
(***************************************************************************)
\* the query id raw SQL is run under
raw_sql_query_id == 4060379

\* 'https://'
https_prefix ==
    <<"h", "t", "t", "p", "s", ":", "/", "/">>

\* 'api.dune.com'
api_host ==
    <<"a", "p", "i", ".", "d", "u", "n", "e", ".", "c", "o", "m">>

\* 'https://api.dune.com/api/v1/query/'
api_query_prefix ==
    <<"h", "t", "t", "p", "s", ":", "/", "/", "a", "p", "i", ".", "d", "u", "n", "e",
      ".", "c", "o", "m", "/", "a", "p", "i", "/", "v", "1", "/", "q", "u", "e", "r",
      "y", "/">>

\* 'https://dune.com/queries' and 'https://dune.com/queries/'
web_queries_prefix ==
    <<"h", "t", "t", "p", "s", ":", "/", "/", "d", "u", "n", "e", ".", "c", "o", "m",
      "/", "q", "u", "e", "r", "i", "e", "s">>
web_queries_separator == web_queries_prefix \o <<"/">>

\* str.startswith
startswith(text, prefix) ==
    Len(text) >= Len(prefix) /\ SubSeq(text, 1, Len(prefix)) = prefix

\* str.find + 1: where the first occurrence of sep starts, 0 when there is none
Find(text, sep) ==
    LET at == {k \in 1..(Len(text) - Len(sep) + 1) : SubSeq(text, k, k + Len(sep) - 1) = sep}
    IN  IF at = {} THEN 0 ELSE CHOOSE k \in at : \A j \in at : k <= j

\* text.split(sep)[0]
split_0(text, sep) ==
    IF Find(text, sep) = 0 THEN text ELSE SubSeq(text, 1, Find(text, sep) - 1)

\* text.split(sep)[1]; [ok |-> FALSE] is the IndexError when sep does not occur
split_1(text, sep) ==
    IF Find(text, sep) = 0 THEN [ok |-> FALSE, text |-> <<>>]
    ELSE [ok |-> TRUE,
          text |-> split_0(SubSeq(text, Find(text, sep) + Len(sep), Len(text)), sep)]

\* str.strip of blanks
RECURSIVE lstrip(_)
lstrip(text) == IF text # <<>> /\ Head(text) = " " THEN lstrip(Tail(text)) ELSE text
RECURSIVE rstrip(_)
rstrip(text) ==
    IF text # <<>> /\ text[Len(text)] = " "
    THEN rstrip(SubSeq(text, 1, Len(text) - 1)) ELSE text

\* int(text): blanks around, one sign, digits with single underscores between
\* them; [ok |-> FALSE] is the ValueError
python_int(text) ==
    LET stripped == rstrip(lstrip(text))
        signed == stripped # <<>> /\ Head(stripped) \in {"+", "-"}
        body == IF signed THEN Tail(stripped) ELSE stripped
        digits == SelectSeq(body, LAMBDA c : c # "_")
        wellformed ==
            /\ body # <<>>
            /\ IsIntegerText(digits)
            /\ body[1] # "_" /\ body[Len(body)] # "_"
            /\ \A k \in 1..(Len(body) - 1) : ~(body[k] = "_" /\ body[k + 1] = "_")
    IN  IF ~wellformed THEN [ok |-> FALSE, value |-> 0]
        ELSE [ok |-> TRUE,
              value |-> IF signed /\ Head(stripped) = "-"
                        THEN 0 - IntegerOf(digits) ELSE IntegerOf(digits)]

\* an input of the call that is an integer or a text
IntegerQuery(n) == [type |-> "int", int |-> n, str |-> <<>>]
TextQuery(text) == [type |-> "str", int |-> 0, str |-> text]

\* a faulty _is_sql that does not try int() (C30 tells the code from it)
is_sql_of_any_text(query) ==
    IF query.type = "int" THEN FALSE
    ELSE ~(startswith(query.str, https_prefix) \/ startswith(query.str, api_host))

\* _is_sql, lines 573-586
is_sql(query) ==
    IF query.type = "int" THEN FALSE
    ELSE IF startswith(query.str, https_prefix) \/ startswith(query.str, api_host)
    THEN FALSE
    ELSE ~python_int(query.str).ok

\* get_query_id, _urls.py lines 79-91; error "IndexError" is the failure of
\* split(...)[1]
get_query_id(query) ==
    IF query.type = "int" THEN [raise |-> FALSE, error |-> "", query_id |-> query.int]
    ELSE LET part ==
                 IF startswith(query.str, api_query_prefix)
                 THEN split_1(query.str, api_query_prefix)
                 ELSE IF startswith(query.str, web_queries_prefix)
                 THEN split_1(query.str, web_queries_separator)
                 ELSE [ok |-> TRUE, text |-> query.str]
             text == IF part.ok /\ (startswith(query.str, api_query_prefix)
                                    \/ startswith(query.str, web_queries_prefix))
                     THEN split_0(part.text, <<"/">>) ELSE part.text
         IN  IF ~part.ok THEN [raise |-> TRUE, error |-> "IndexError", query_id |-> 0]
             ELSE IF ~python_int(text).ok
             THEN [raise |-> TRUE, error |-> "invalid query id", query_id |-> 0]
             ELSE [raise |-> FALSE, error |-> "", query_id |-> python_int(text).value]

Resolved(query_id, ex, parameters) ==
    [raise |-> FALSE, error |-> "", query_id |-> query_id, execution |-> ex,
     parameters |-> parameters]
ResolveRaised(msg) ==
    [raise |-> TRUE, error |-> msg, query_id |-> None, execution |-> None,
     parameters |-> None]

\* _determine_input_type, lines 547-570, for an integer or a text
determine_query_type(query, parameters) ==
    IF query.type = "str" /\ query.str = <<>> THEN ResolveRaised("empty query")
    ELSE IF is_sql(query)
    THEN Resolved(Some(raw_sql_query_id), None, Some(<<<<"query", query.str>>>>))
    ELSE IF get_query_id(query).raise THEN ResolveRaised(get_query_id(query).error)
    ELSE Resolved(Some(get_query_id(query).query_id), None, parameters)

\* the decimal text of a natural number
RECURSIVE Decimal(_)
Decimal(n) ==
    IF n < 10 THEN <<Digits[n + 1]>> ELSE Decimal(n \div 10) \o <<Digits[(n % 10) + 1]>>

\* the query ids of the inputs, and what follows the id in a URL
QueryIds == {0, 7, 12, query_4388, raw_sql_query_id}
UrlSuffixes ==
    {<<>>, <<"/">>, <<"/", "r", "e", "s", "u", "l", "t", "s">>, <<"/", "r", "e", "s", "u", "l", "t", "s", "/", "c", "s", "v">>,
     <<"/", "e", "x", "e", "c", "u", "t", "e">>, <<"/", "m", "y", "-", "q", "u", "e", "r", "y">>}

\* texts that are neither numbers nor URLs: every text of up to MaxText of
\* these characters that holds a letter
MaxText == 3
SqlAlphabet == {"s", "q", "1", " ", "/"}
SqlTexts ==
    {text \in UNION {[1..n -> SqlAlphabet] : n \in 1..MaxText} :
        \E k \in DOMAIN text : text[k] \in {"s", "q"}}

\* the inputs: `n` is the query the input names, `form` says how
ResolveInputs ==
    {[form |-> "integer", n |-> n, query |-> IntegerQuery(n)] : n \in QueryIds}
    \cup {[form |-> "numeric", n |-> n, query |-> TextQuery(Decimal(n))] : n \in QueryIds}
    \cup {[form |-> "api_url", n |-> n,
            query |-> TextQuery(api_query_prefix \o Decimal(n) \o s)] :
              n \in QueryIds, s \in UrlSuffixes}
    \cup {[form |-> "web_url", n |-> n,
            query |-> TextQuery(web_queries_separator \o Decimal(n) \o s)] :
              n \in QueryIds, s \in UrlSuffixes}
    \cup {[form |-> "sql", n |-> 0, query |-> TextQuery(text)] : text \in SqlTexts}
    \cup {[form |-> "other", n |-> 0, query |-> TextQuery(text)] :
              text \in {<<>>, <<" ", "7">>, <<"-", "7">>, <<"1", "_", "2">>, <<"1", "_">>,
                        https_prefix, api_host, web_queries_prefix,
                        api_query_prefix \o <<"q">>}}

InitResolve ==
    /\ execs = [e \in ExecIds |-> [state |-> "none", started |-> 0]]
    /\ latest = 0
    /\ now = 10
    /\ inp = DefaultInput
    /\ files = {}
    /\ files_before = {}
    /\ pc = "start"
    /\ refresh = FALSE
    /\ execution = None
    /\ gr_query = FALSE
    /\ gr_execution = None
    /\ df = None
    /\ result = NoResult
    /\ trace = <<>>
    /\ poll_entry = None
    /\ written = {}
    /\ frame \in {[input |-> i, parameters |-> p, resolved |-> None] :
                     i \in ResolveInputs, p \in {None, Some(TwoEntries)}}

\* query, line 188: query_id, execution, parameters = _determine_input_type(...)
DetermineInputType ==
    /\ pc = "start"
    /\ frame' = [frame EXCEPT
                    !.resolved = Some(determine_query_type(frame.input.query,
                                                           frame.parameters))]
    /\ pc' = "resolved"
    /\ UNCHANGED <<execs, latest, now, inp, files, files_before, refresh, execution,
                   gr_query, gr_execution, df, result, trace, poll_entry, written>>

NextResolve == DetermineInputType

SpecResolve == InitResolve /\ [][NextResolve]_vars

(***************************************************************************)
(* The decoding of one raw table under type overrides.  Here `frame` holds *)
(* the raw text, the overrides and what the decoder gives.  An override is *)
(* None or a type; a list of overrides is TypesList(l), a mapping from     *)
(* column names is TypesDict(d) with d the pairs <<name, override>>.       *)
(***************************************************************************)
MaxLines == 2
MaxOverrides == 2

true_text == <<"t", "r", "u", "e">>

\* Expr.cast (strict) of a text column's value, and `== 'true'` for Boolean:
\* [ok |-> FALSE] is polars' InvalidOperationError
cast(dtype, text) ==
    IF dtype = "Int64"
    THEN IF IsIntegerText(text) THEN [ok |-> TRUE, cell |-> Cell("Int64", text)]
         ELSE [ok |-> FALSE, cell |-> Cell("String", text)]
    ELSE IF dtype = "Boolean"
    THEN [ok |-> TRUE,
          cell |-> [dtype |-> "Boolean", int |-> IF text = true_text THEN 1 ELSE 0,
                    str |-> <<>>]]
    ELSE [ok |-> TRUE, cell |-> Cell("String", text)]

\* `name in types` and types[name] for a mapping
HasKey(d, name) == \E k \in DOMAIN d : d[k][1] = name
Lookup(d, name) == d[CHOOSE k \in DOMAIN d : d[k][1] = name][2]

\* lines 1129-1137: the override of column number c (from 1) named `name`, None
\* when there is none
override_of(types, c, name) ==
    IF IsNone(types) THEN None
    ELSE IF Val(types).tag = "list"
    THEN IF Len(Val(types).list) >= c THEN Val(types).list[c] ELSE None
    ELSE IF HasKey(Val(types).dict, name) THEN Lookup(Val(types).dict, name) ELSE None

\* line 1158: `name not in all_types`; for a list the names are compared with
\* its items, which are types
not_in_all_types(all_types, name) ==
    IF Val(all_types).tag = "list" THEN TRUE
    ELSE ~HasKey(Val(all_types).dict, name)

DecodeRaised(msg) == [raise |-> TRUE, error |-> msg, table |-> None]

\* a faulty decoder that lets the inferred type win over the override (C36
\* tells the code from it)
new_type_inferred_first(types, c, name, texts) ==
    IF infer_type(texts) # "String" \/ IsNone(override_of(types, c, name))
    THEN infer_type(texts) ELSE Val(override_of(types, c, name))

\* lines 1127-1140: the type of a column
new_type(types, c, name, texts) ==
    IF IsNone(override_of(types, c, name)) THEN infer_type(texts)
    ELSE Val(override_of(types, c, name))

\* a faulty check that accepts a mapping lacking columns (C31 tells the code
\* from it)
unspecified_columns_none(all_types, columns) == {c \in DOMAIN columns : FALSE}

\* lines 1157-1158: the columns all_types gives no type for
unspecified_columns(all_types, columns) ==
    {c \in DOMAIN columns : not_in_all_types(all_types, columns[c])}

\* _process_raw_table, lines 1095-1175 (Datetime overrides apart)
process_raw_table_typed(text, types, all_types) ==
    LET columns == text[1]
        lines == Tail(text)
        given == IF ~IsNone(all_types) THEN all_types ELSE types
        column(c) == [i \in 1..Len(lines) |-> lines[i][c]]
        dtype(c) == new_type(given, c, columns[c], column(c))
        absent == IF ~IsNone(given) /\ Val(given).tag = "dict"
                  THEN {k \in DOMAIN Val(given).dict :
                           \A c \in DOMAIN columns : columns[c] # Val(given).dict[k][1]}
                  ELSE {}
    IN  IF ~IsNone(all_types) /\ ~IsNone(types)
        THEN DecodeRaised("cannot specify both types and all_types")
        ELSE IF absent # {} THEN DecodeRaised("types specified for missing columns")
        ELSE IF ~IsNone(all_types) /\ unspecified_columns(all_types, columns) # {}
        THEN DecodeRaised("types not specified for columns")
        ELSE IF \E i \in DOMAIN lines, c \in DOMAIN columns : ~cast(dtype(c), lines[i][c]).ok
        THEN DecodeRaised("InvalidOperationError")
        ELSE [raise |-> FALSE, error |-> "",
              table |-> Some([columns |-> columns,
                              dtypes |-> [c \in DOMAIN columns |-> dtype(c)],
                              rows |-> [i \in DOMAIN lines |->
                                           [c \in DOMAIN columns |->
                                               cast(dtype(c), lines[i][c]).cell]]])]

\* the raw tables: the header n,v and up to MaxLines lines of two cells
DecodeColumns == <<<<"n">>, <<"v">>>>
DecodeCells == {<<"7">>, <<"a">>, true_text}
DecodeLines == {<<n, v>> : n \in {<<"7">>, <<"a">>}, v \in DecodeCells}
RawTables ==
    {<<DecodeColumns>> \o lines : lines \in UNION {[1..n -> DecodeLines] : n \in 1..MaxLines}}

\* the overrides: lists of up to MaxOverrides items, mappings of one or two
\* names (<<"x">> names no column of the raw tables)
DTypes == {"Int64", "String", "Boolean"}
OverrideItems == {None} \cup {Some(t) : t \in DTypes}
OverrideNames == {<<"n">>, <<"v">>, <<"x">>}
OverrideLists == UNION {[1..n -> OverrideItems] : n \in 0..MaxOverrides}
OverrideDicts ==
    {d \in UNION {[1..n -> OverrideNames \X OverrideItems] : n \in {1, 2}} :
        \A j, k \in DOMAIN d : j # k => d[j][1] # d[k][1]}
Overrides == {TypesList(l) : l \in OverrideLists} \cup {TypesDict(d) : d \in OverrideDicts}

InitDecode ==
    /\ execs = [e \in ExecIds |-> [state |-> "none", started |-> 0]]
    /\ latest = 0
    /\ now = 10
    /\ inp = DefaultInput
    /\ files = {}
    /\ files_before = {}
    /\ pc = "start"
    /\ refresh = FALSE
    /\ execution = None
    /\ gr_query = FALSE
    /\ gr_execution = None
    /\ df = None
    /\ result = NoResult
    /\ trace = <<>>
    /\ poll_entry = None
    /\ written = {}
    /\ frame \in {[text |-> t, types |-> o[1], all_types |-> o[2], decoded |-> None] :
                     t \in RawTables,
                     o \in ({None} \X ({None} \cup Overrides))
                           \cup (Overrides \X {None, TypesList(<<>>),
                                               TypesDict(<<<<<<"n">>, Some("Int64")>>>>)})}

\* _get_results, line 924: df = _process_raw_table(result, types=types,
\* all_types=all_types)
ProcessRawTable ==
    /\ pc = "start"
    /\ frame' = [frame EXCEPT
                    !.decoded = Some(process_raw_table_typed(frame.text, frame.types,
                                                             frame.all_types))]
    /\ pc' = "decoded"
    /\ UNCHANGED <<execs, latest, now, inp, files, files_before, refresh, execution,
                   gr_query, gr_execution, df, result, trace, poll_entry, written>>

NextDecode == ProcessRawTable

SpecDecode == InitDecode /\ [][NextDecode]_vars

(***************************************************************************)
(* Properties of the top-level call.                                       *)
(***************************************************************************)
IsQuery == inp.query_or_execution.kind = "query"
Last(t) == t[Len(t)]
Positions(t, ops) == {k \in DOMAIN t : t[k].op \in ops}
ReturnedNormally == pc = "done" /\ result.kind # "raise"
Finished(resp) == "is_execution_finished" \in resp.keys /\ resp.is_execution_finished

\* the latest execution is missing or older than max_age (as the age lookup
\* computes the age)
LatestTooOld ==
    \/ latest = 0
    \/ now - parse_timestamp(execs[latest].started) > Val(inp.max_age)

\* C3 (as claimed): with max_age set and refresh=False, a call that returns
\* while the latest execution is older than max_age (or missing) has submitted
\* a new execution and returns that execution's result, whatever the cache
\* holds (no submission leaves the latest execution as the call found it);
\* and an age of at most max_age leaves `refresh` unset.
C3_StaleIsRefreshed ==
    (IsQuery /\ ~inp.refresh /\ ~IsNone(inp.max_age)) =>
        /\ ReturnedNormally =>
               IF Positions(trace, {"submit"}) = {}
               THEN ~LatestTooOld
               ELSE \E k \in Positions(trace, {"submit"}) :
                        \/ result.df = Some(ResultOf(trace[k].id))
                        \/ /\ result.kind = "execution"
                           /\ Val(result.execution).execution_id = trace[k].id
        /\ \A k \in Positions(trace, {"age"}) :
               LET r == get_query_latest_age(trace[k].resp, now)
               IN  (~r.raise /\ ~IsNone(r.age) /\ Val(r.age) <= Val(inp.max_age))
                       => ~refresh

\* C4 (as claimed): a call with poll=False that returns, returns an Execution
\* handle, and it issues no status request.
C4_NoPollReturnsHandle ==
    ~inp.poll =>
        /\ Positions(trace, {"status"}) = {}
        /\ ReturnedNormally => result.kind = "execution"

\* C5: with refresh=True on a query reference the first thing the call does is
\* the submission (no cache access, no lookup and no result request precedes
\* it) and it submits once; a table it returns was fetched by the new
\* execution's id after a finished status of that execution; with poll=False
\* it returns the new handle, without a timestamp, and nothing follows the
\* submission.
C5_RefreshSubmitsFirst ==
    (IsQuery /\ inp.refresh) =>
        /\ trace # <<>> => trace[1].op = "submit"
        /\ Cardinality(Positions(trace, {"submit"})) <= 1
        /\ Positions(trace, {"cache_exists", "cache_read", "latest", "age"}) = {}
        /\ ReturnedNormally =>
             LET e == trace[1].id
             IN  /\ e # 0
                 /\ IF inp.poll
                    THEN /\ result.kind \in {"table", "pair"}
                         /\ result.df = Some(ResultOf(e))
                         /\ result.kind = "pair" =>
                                Val(result.execution).execution_id = e
                         /\ \A k \in Positions(trace, {"results", "status"}) :
                                trace[k].id = e
                         /\ \E k \in Positions(trace, {"results"}) :
                                /\ "error" \notin trace[k].resp.keys
                                /\ \E j \in Positions(trace, {"status"}) :
                                       j < k /\ Finished(trace[j].resp)
                    ELSE /\ result.kind = "execution"
                         /\ result.execution = Some(Execution(e, FALSE, None))
                         /\ Len(trace) = 1

C5_Witness ==
    /\ IsQuery
    /\ inp.refresh
    /\ inp.poll
    /\ ReturnedNormally
    /\ result.kind = "table"
    /\ Positions(trace, {"cache_write"}) # {}

\* C6: a call on an execution handle submits nothing, looks up no latest
\* execution and touches no cache file; every request it makes is a status or
\* a result request naming the handle's execution_id, and with poll=False it
\* makes none.
C6_HandleOnlyPollsAndFetches ==
    ~IsQuery =>
        /\ \A k \in DOMAIN trace :
               /\ trace[k].op \in {"status", "results"}
               /\ trace[k].id = inp.query_or_execution.execution.execution_id
        /\ files = files_before
        /\ ~inp.poll => trace = <<>>

C6_Witness ==
    /\ ~IsQuery
    /\ inp.poll
    /\ inp.cache
    /\ inp.save_to_cache
    /\ inp.include_execution
    /\ ReturnedNormally
    /\ result.kind = "pair"

\* the execution a metadata response describes, as get_latest_execution builds it
Described(resp) ==
    Execution(resp.execution_id, TRUE, Some(parse_timestamp(resp.execution_started_at)))

\* the path of the cache file of the call's retrieval for the execution a
\* metadata response describes
KeyFor(resp) ==
    Val(build_cache_path(Described(resp), execute_kwargs(inp), result_kwargs(inp),
                         inp.cache_dir).path)

PollTarget == IF pc = "poll" THEN Val(execution) ELSE Val(gr_execution)
Polling == pc \in {"poll", "gr_poll"}
\* the poller has just returned normally (the next request is the result fetch)
PollReturned == pc = "results" /\ trace # <<>> /\ Last(trace).op = "status"

\* C8: when the poller returns normally, the status response it received last
\* reports is_execution_finished and not QUERY_STATE_FAILED, the execution's
\* timestamp is the parsed execution_started_at of that response, and the
\* execution_id is the one the poller was entered with; while it polls, the
\* execution is as it was on entry.
C8_PollReturnsOnFinished ==
    /\ PollReturned =>
         /\ Finished(Last(trace).resp)
         /\ Last(trace).resp.state # "QUERY_STATE_FAILED"
         /\ Val(gr_execution).has_timestamp
         /\ Val(gr_execution).timestamp =
                Some(parse_timestamp(Last(trace).resp.execution_started_at))
         /\ Val(gr_execution).execution_id = Val(poll_entry).execution_id
         /\ Last(trace).id = Val(poll_entry).execution_id
         /\ ~gr_query => execution = gr_execution
    /\ Polling => PollTarget = Val(poll_entry)

C8_Witness ==
    /\ PollReturned
    /\ Val(poll_entry).timestamp = Some(1)
    /\ Val(gr_execution).timestamp = Some(5)
    /\ Waits(trace) = MaxPolls

\* C9: a status response that reports is_execution_finished with
\* QUERY_STATE_FAILED is the last request of the call: the call has raised
\* the error that names the polled execution id, and the execution is as it
\* was when the poller was entered.
C9_FailedStatusRaises ==
    \A k \in Positions(trace, {"status"}) :
        (Finished(trace[k].resp) /\ trace[k].resp.state = "QUERY_STATE_FAILED")
        => /\ k = Len(trace)
           /\ pc = "done"
           /\ result.kind = "raise"
           /\ result.error = "QUERY FAILED"
           /\ result.error_id = trace[k].id
           /\ result.error_id = Val(poll_entry).execution_id
           /\ gr_execution = poll_entry
           /\ ~gr_query => execution = poll_entry

C9_Witness ==
    /\ pc = "done"
    /\ result.error = "QUERY FAILED"
    /\ Val(poll_entry).timestamp = Some(1)
    /\ Waits(trace) = MaxPolls

\* a status response on which the poller waits: HTTP 429 without the
\* is_execution_finished key, or a status that reports not finished
StillWaiting(resp) ==
    IF "is_execution_finished" \in resp.keys
    THEN ~resp.is_execution_finished
    ELSE resp.status_code = 429

\* C10: a poller whose execution the service knows terminates (returns or
\* raises) once the service answers finished, after however many 429 and
\* not-finished responses; on each 429 or not-finished response it stays in
\* its loop with the execution and the call's result untouched, it leaves the
\* loop on any other response, and it never leaves the loop between requests.
C10_PollsUntilFinished ==
    /\ [][Polling =>
            IF trace' # trace
            THEN IF StillWaiting(trace'[Len(trace')].resp)
                 THEN /\ pc' = pc
                      /\ execution' = execution
                      /\ gr_execution' = gr_execution
                      /\ result' = result
                 ELSE ~Polling'
            ELSE Polling' /\ pc' = pc]_vars
    /\ (Polling /\ execs[PollTarget.execution_id].state # "none") ~> ~Polling

C10_Witness ==
    /\ ~Polling
    /\ trace # <<>>
    /\ Last(trace).op = "status"
    /\ Finished(Last(trace).resp)
    /\ \E j, k \in Positions(trace, {"status"}) :
          /\ j < k
          /\ trace[j].resp.status_code = 429
          /\ "is_execution_finished" \in trace[k].resp.keys
          /\ ~trace[k].resp.is_execution_finished
          /\ trace[k].id = Last(trace).id

(***************************************************************************)
(* Properties of the cache.                                                *)
(***************************************************************************)
\* the last call was a load_from_cache whose lookup found a finished execution
Looked ==
    /\ pc = "loaded"
    /\ "error" \notin trace[1].resp.keys
    /\ Finished(trace[1].resp)

\* the call into the cache that the last load_from_cache made
LoadCall ==
    CacheCall(Described(trace[1].resp), execute_kwargs(inp), result_kwargs(inp),
              inp.cache_dir)

PathOf(c) ==
    Val(build_cache_path(c.execution, c.execute_kwargs, c.result_kwargs, c.cache_dir).path)

\* C1: a load_from_cache with the execute parameters, retrieval parameters
\* and cache directory of a completed save_to_cache, made while the lookup
\* reports the execution of that save (same execution_id, same start time) as
\* the latest finished one, returns the table that save wrote (the last such
\* save, when there were several).
C1_CacheRoundTrip ==
    Looked =>
        \A w \in written :
            w.call = LoadCall =>
                /\ result.kind = IF inp.include_execution THEN "pair" ELSE "table"
                /\ result.df = Some(w.df)

C1_Witness ==
    /\ Looked
    /\ inp.retrieval.limit # None
    /\ \E w \in written :
         /\ w.call = LoadCall
         /\ w.saves = MaxWrites
         /\ result.df = Some(w.df)

BackoffSleeps ==
    SelectSeq(trace, LAMBDA e : e.op = "sleep" /\ e.kind = "backoff")

RateLimitSignal(e) ==
    /\ e.op = "status"
    /\ e.resp.status_code = 429
    /\ "is_execution_finished" \notin e.resp.keys

\* C11: the first backoff sleep of a poll lies between poll_interval and
\* 2 * poll_interval, every later one between the previous backoff sleep and
\* its double (so the backoff sleeps never decrease, whatever sleeps of the
\* normal tick lie between them), and a 429 response is followed by a backoff
\* sleep and then directly by the next status request.
C11_BackoffGrows ==
    LET b == BackoffSleeps
    IN  /\ b # <<>> =>
               /\ Leq(frame.poll_interval, b[1].amount)
               /\ Leq(b[1].amount, Times(frame.poll_interval, Seconds(2, 1)))
        /\ \A i \in 1..(Len(b) - 1) :
               /\ Leq(b[i].amount, b[i + 1].amount)
               /\ Leq(b[i + 1].amount, Times(b[i].amount, Seconds(2, 1)))
        /\ \A k \in DOMAIN trace :
               RateLimitSignal(trace[k]) =>
                   /\ k < Len(trace)
                   /\ trace[k + 1].op = "sleep"
                   /\ trace[k + 1].kind = "backoff"
                   /\ k + 2 <= Len(trace) => trace[k + 2].op = "status"

C11_Witness ==
    /\ pc = "done"
    /\ Len(BackoffSleeps) = MaxPolls
    /\ ~Leq(BackoffSleeps[1].amount, frame.poll_interval)
    /\ ~Leq(BackoffSleeps[MaxPolls].amount, BackoffSleeps[1].amount)

(***************************************************************************)
(* Properties of the handling of HTTP 429 outside the poller.              *)
(***************************************************************************)
Requests == {"latest", "age", "results", "submit", "status"}

\* C12: a call does not end by raising on a request that was answered with
\* HTTP 429: the request is retried after a backoff sleep, whichever request
\* of the call it is.
C12_RateLimitNeverFailsCall ==
    pc = "done" /\ result.kind = "raise" /\ trace # <<>> =>
        ~(Last(trace).op \in Requests /\ Last(trace).resp.status_code = 429)

\* C13: when the call has ended, every latest-execution lookup that was answered
\* with HTTP 429 is followed by a repeat of the lookup (the lookup does not
\* raise on it).
C13_LookupRepeatsOnRateLimit ==
    pc = "done" =>
        \A k \in Positions(trace, {"latest"}) :
            trace[k].resp.status_code = 429 =>
                k < Len(trace) /\ trace[k + 1].op = "latest"

(***************************************************************************)
(* Properties of the retriever's pages.                                    *)
(***************************************************************************)
\* the requests of call i of the run, in order
RequestsOf(i) == SelectSeq(trace, LAMBDA e : e.op \in {"results", "page"} /\ e.id = i)

\* the rows of the CSV bodies of the first j of these requests
RowsOf(events, j) == Flatten([m \in 1..j |-> Tail(events[m].resp.text)])

\* the service answered every request of call i with a CSV body
Served(i) == \A m \in DOMAIN RequestsOf(i) : IsNone(RequestsOf(i)[m].resp.error)

Ended(i) == i \in DOMAIN frame.tables

\* the rows of the result from the offset of call i on
RowsFrom(i) == Len(frame.cells) - frame.calls[i].offset

\* C14: a fetch with limit N that the service answers with pages of the result
\* returns a table of N rows when the result has N rows or more from the
\* offset on, and a table of at most N rows in any case.
C14_LimitReturnsExactlyN ==
    \A i \in DOMAIN frame.calls :
        Ended(i) /\ Served(i) /\ ~IsNone(frame.calls[i].limit) =>
            LET N == Val(frame.calls[i].limit)
                out == frame.tables[i]
            IN  /\ ~out.raise
                /\ Len(Val(out.table).rows) <= N
                /\ RowsFrom(i) >= N => Len(Val(out.table).rows) = N

\* C15: a call without a limit makes one request; a page is requested at the
\* cursor of the response just before it and only while the rows received are
\* fewer than the limit; a call that returns has stopped at a response with no
\* cursor or at the limit, and its table holds the rows of its pages in the
\* order of the requests, cut at the limit.
C15_PagesFollowCursor ==
    \A i \in DOMAIN frame.calls :
        LET events == RequestsOf(i)
            limit == frame.calls[i].limit
        IN  /\ IsNone(limit) => Len(events) <= 1
            /\ \A m \in DOMAIN events :
                   IF m = 1 THEN events[m].op = "results"
                   ELSE /\ events[m].op = "page"
                        /\ events[m - 1].resp.next_uri = Some(events[m].url)
                        /\ Len(RowsOf(events, m - 1)) < Val(limit)
            /\ Ended(i) /\ ~frame.tables[i].raise =>
                   LET rows == Val(frame.tables[i].table).rows
                       received == RowsOf(events, Len(events))
                   IN  /\ ~IsNone(limit) =>
                              \/ IsNone(events[Len(events)].resp.next_uri)
                              \/ Len(received) >= Val(limit)
                       /\ Len(rows) = IF IsNone(limit) THEN Len(received)
                                      ELSE Min(Val(limit), Len(received))
                       /\ \A r \in DOMAIN rows :
                              /\ rows[r][1].int = IntegerOf(received[r][1])
                              /\ rows[r][2] = Cell(rows[r][2].dtype, received[r][2])

\* a call followed a cursor, received more rows than its limit and returned
\* the first of them
C15_Witness ==
    \E i \in DOMAIN frame.tables :
        /\ ~frame.tables[i].raise
        /\ Len(RequestsOf(i)) >= 2
        /\ Len(RowsOf(RequestsOf(i), Len(RequestsOf(i)))) >
               Len(Val(frame.tables[i].table).rows)
        /\ Val(frame.tables[i].table).dtypes = <<"Int64", "String">>

\* the run fetches [0, N) and then two slices of it
Sliced == Len(frame.calls) = 3

\* C16: when the fetch of [0, N) and the fetches of its slices have been served,
\* the first returned N rows and the concatenation of the slices' tables, in
\* order, is that table.
C16_SlicesConcatenateToWhole ==
    pc = "done" /\ Sliced /\ (\A i \in DOMAIN frame.calls : Served(i)) =>
        /\ \A i \in DOMAIN frame.calls : ~frame.tables[i].raise
        /\ Len(Val(frame.tables[1].table).rows) = Val(frame.calls[1].limit)
        /\ LET slices == concat(<<Val(frame.tables[2].table), Val(frame.tables[3].table)>>)
           IN  ~slices.raise /\ slices.table = frame.tables[1].table

(***************************************************************************)
(* Properties of the result fetch that finds no execution or a running one.*)
(***************************************************************************)
\* request k is a result fetch by query id answered 'no execution found'
NullAt(k) ==
    trace[k].op = "results" /\ trace[k].id = 0 /\ trace[k].resp.error = ErrNotFound

After(k) == {m \in DOMAIN trace : m > k}

\* C17: after 'no execution found' on the fetch by query id the call does not
\* raise but submits, once; with poll=True every later request is a status
\* request or a result request for the new execution, the result is requested
\* only after a finished status, and a call that returns, returns the new
\* execution's result; with poll=False the call returns the new handle and
\* nothing follows the submission.
C17_NullThenOneExecution ==
    \A k \in Positions(trace, {"results"}) :
        NullAt(k) =>
            /\ k = Len(trace) => pc = "execute"
            /\ k < Len(trace) => trace[k + 1].op = "submit"
            /\ Cardinality({m \in After(k) : trace[m].op = "submit"}) <= 1
            /\ \A m \in After(k) :
                   trace[m].op \in {"status", "results"} =>
                       /\ inp.poll
                       /\ trace[k + 1].resp.status_code = 200
                       /\ trace[m].id = trace[k + 1].id
            /\ \A m \in After(k) :
                   trace[m].op = "results" =>
                       /\ m > k + 2
                       /\ Finished(trace[m - 1].resp)
                       /\ \A j \in (k + 2)..(m - 1) : trace[j].op = "status"
            /\ ReturnedNormally =>
                   IF inp.poll
                   THEN /\ \E m \in After(k) : trace[m].op = "results"
                        /\ result.df = Some(ResultOf(trace[k + 1].id))
                   ELSE /\ Len(trace) = k + 1
                        /\ result.kind = "execution"
                        /\ Val(result.execution).execution_id = trace[k + 1].id

C17_Witness ==
    /\ ReturnedNormally
    /\ inp.poll
    /\ \E k \in DOMAIN trace : NullAt(k) /\ Len(trace) > k + 3

\* C17 (as claimed): after 'no execution found' a call that returns has
\* submitted one execution, polled it and fetched its result by its id.
C17_NullThenPollAndFetch ==
    \A k \in Positions(trace, {"results"}) :
        NullAt(k) /\ ReturnedNormally =>
            /\ Cardinality({m \in After(k) : trace[m].op = "submit"}) = 1
            /\ \E m \in After(k) :
                   /\ trace[m].op = "results"
                   /\ trace[m].id = trace[k + 1].id
                   /\ trace[m - 1].op = "status"

\* request k is a result fetch answered 'execution still running'
RunningAt(k) == trace[k].op = "results" /\ trace[k].resp.error = ErrExecuting

\* C18: after 'execution still running' the fetch looks up the latest execution
\* (unfinished allowed) when it knows none, which is on the first such answer
\* to a fetch by query id, and then polls the execution it knows; the fetch is
\* repeated only after a finished status of that execution; the call never ends
\* on the still-running answer and never raises its message.
C18_RunningIsPolledThenRetried ==
    /\ result.kind = "raise" => result.error # ErrExecuting
    /\ \A k \in Positions(trace, {"results"}) :
           RunningAt(k) =>
               LET first == \A j \in 1..(k - 1) : ~RunningAt(j)
                   lookup == trace[k].id = 0 /\ first
                   p == IF lookup THEN k + 2 ELSE k + 1
               IN  /\ k = Len(trace) =>
                          pc = (IF lookup THEN "latest" ELSE "gr_poll")
                   /\ k < Len(trace) =>
                          trace[k + 1].op = (IF lookup THEN "latest" ELSE "status")
                   /\ lookup /\ k < Len(trace) /\ "execution_id" \in trace[k + 1].resp.keys =>
                          /\ ~IsNone(gr_execution)
                          /\ Val(gr_execution).execution_id = trace[k + 1].resp.execution_id
                          /\ k + 1 = Len(trace) => pc = "gr_poll"
                   /\ \A m \in After(p - 1) :
                          (\A j \in p..m : trace[j].op = "status") =>
                              trace[m].id = Val(gr_execution).execution_id
                   /\ \A m \in After(k) :
                          (trace[m].op = "results" /\ \A j \in (k + 1)..(m - 1) : ~RunningAt(j)) =>
                              /\ m > p
                              /\ Finished(trace[m - 1].resp)
                              /\ \A j \in p..(m - 1) : trace[j].op = "status"

C18_Witness ==
    /\ ReturnedNormally
    /\ ~IsNone(result.df)
    /\ \E k \in DOMAIN trace :
         /\ RunningAt(k)
         /\ trace[k + 1].op = "latest"
         /\ ~Finished(trace[k + 1].resp)
         /\ ~Finished(trace[k + 2].resp)

\* the execution whose results a request for results asks for
Requested == IF gr_query THEN latest ELSE Val(gr_execution).execution_id

\* C19: a fetch that follows a poll (a retry, or the fetch of query after its
\* poll) requests the results of the execution the poll waited on.
C19_RetryRequestsPolledExecution ==
    [][(GetResults /\ trace # <<>> /\ Last(trace).op = "status")
           => Requested = Last(trace).id]_vars

\* C20: a call of the retriever in which a request, for the first page or for a
\* later one, was answered with an error envelope raises the error of the
\* envelope and returns no table.
C20_ErrorEnvelopeRaisesMessage ==
    \A i \in DOMAIN frame.tables :
        \A m \in DOMAIN RequestsOf(i) :
            ~IsNone(RequestsOf(i)[m].resp.error) =>
                /\ frame.tables[i].raise
                /\ frame.tables[i].error = Val(RequestsOf(i)[m].resp.error)
                /\ IsNone(frame.tables[i].table)

(***************************************************************************)
(* Properties of concurrent calls into the cache.                          *)
(***************************************************************************)
\* a file content that is one whole table, written by one call
Complete(content) ==
    /\ Len(content) = parquet_chunks
    /\ \A k \in DOMAIN content :
           /\ content[k].k = k
           /\ content[k].writer = content[1].writer
           /\ content[k].df = content[1].df

IsCachePath(path) == "tmp_of" \notin DOMAIN path

Writing(t) == frame[t].role = "save" /\ frame[t].pc \in {"write", "move"}

\* C21: under every interleaving of the calls, a file at a cache path holds one
\* whole table written by one call, what a reader has read is such a table, and
\* two calls that are writing write to different temporary paths.
C21_CacheFilesAreWhole ==
    /\ \A f \in files : IsCachePath(f.path) => Complete(f.df)
    /\ \A t \in Threads : ~IsNone(frame[t].got) => Complete(Val(frame[t].got))
    /\ \A s, t \in Threads :
           (s # t /\ Writing(s) /\ Writing(t)) =>
               tmp_path(CachePathOf(s), token_hex(s)) # tmp_path(CachePathOf(t), token_hex(t))

\* a reader has read the file of a cache path while another call was writing
\* its temporary file for the same path, after a first call had moved its file
\* into place
C21_Witness ==
    \E r, s, t \in Threads :
        /\ ~IsNone(frame[r].got)
        /\ Writing(s) /\ frame[s].k = 1
        /\ frame[t].role = "save" /\ frame[t].pc = "done"
        /\ CachePathOf(r) = CachePathOf(s) /\ CachePathOf(s) = CachePathOf(t)

(***************************************************************************)
(* Properties of the cache files of a top-level call.                      *)
(***************************************************************************)
\* the step ends with a completed save_to_cache
Saved == Len(trace') > Len(trace) /\ Last(trace').op = "cache_write"

\* C22: every save of a call creates a file at a cache path that had none, and
\* it leaves every file the directory held as it was.
C22_WritersOnlyCreate ==
    [][Saved => /\ Cardinality(files') = Cardinality(files) + 1
                /\ files \subseteq files']_vars

\* C23: two saves, of one call or of two, that target the same cache path
\* carry the same table.
C23_SamePathSameTable ==
    \A v, w \in written \cup SavedByCall : v.path = w.path => v.df = w.df

\* C24: the table of every file of the cache directory is the result of the
\* execution the path of the file names, with that execution's start time.
C24_FileHoldsItsExecution ==
    \A f \in files :
        /\ f.df = ResultOf(f.path.execution_id)
        /\ f.path.timestamp = parse_timestamp(execs[f.path.execution_id].started)

\* execution handles without a start timestamp: the key absent, the value None
Untimed == {Execution(e, b, None) : e \in ExecIds, b \in BOOLEAN}

KeyPath(c) ==
    build_cache_path(Known(latest), execute_kwargs(c.inp), result_kwargs(c.inp),
                     c.inp.cache_dir).path

\* two calls that differ at most in api_key, verbose, poll_interval and the
\* cache flags
SameRetrieval(a, b) ==
    /\ a.inp.query_or_execution = b.inp.query_or_execution
    /\ a.inp.parameters = b.inp.parameters
    /\ [a.inp.retrieval EXCEPT !.verbose = TRUE] = [b.inp.retrieval EXCEPT !.verbose = TRUE]

\* C26: two calls that differ only in api_key, verbose, poll_interval or the
\* cache flags have the same cache path, and the cache read of the second
\* returns the table the first saved.
C26_CredentialNotInKey ==
    SameRetrieval(frame.first, frame.second) =>
        /\ KeyPath(frame.first) = KeyPath(frame.second)
        /\ pc = "loaded" => result = Returned("table", Some(ResultOf(latest)), None)

C26_Witness ==
    /\ pc = "loaded"
    /\ SameRetrieval(frame.first, frame.second)
    /\ frame.first.inp.api_key # frame.second.inp.api_key
    /\ frame.first.inp.retrieval.verbose # frame.second.inp.retrieval.verbose
    /\ frame.first.poll_interval # frame.second.poll_interval
    /\ frame.first.inp.save_to_cache # frame.second.inp.save_to_cache
    /\ ~IsNone(frame.first.inp.retrieval.types)
    /\ result.kind = "table"

\* C27: two calls whose mappings (parameters, extras, types and all_types by
\* column name) hold the same entries, in whatever order, have the same cache
\* path.
C27_KeyIgnoresMappingOrder ==
    SameData(frame.first, frame.second) => KeyPath(frame.first) = KeyPath(frame.second)

(***************************************************************************)
(* Properties of the two variants of the call.                             *)
(***************************************************************************)
\* C28: query and async_query issue the same requests for results (method,
\* URL with every argument, body) for the same input.
C28_VariantsRequestAlike ==
    \A k \in DOMAIN frame.query \cap DOMAIN frame.async_query :
        frame.query[k] = frame.async_query[k]

(***************************************************************************)
(* The order of the steps of a call.                                       *)
(***************************************************************************)
\* the cache read of a call: the lookup of the latest execution and the
\* access to the file
CacheReadOps == {"latest", "cache_exists", "cache_read"}

\* the cache read precedes every other step
CacheReadFirst ==
    \A k \in Positions(trace, {"cache_exists", "cache_read"}) :
        \A j \in 1..(k - 1) : trace[j].op \in CacheReadOps

\* no submission follows a poll
NoSubmitAfterPoll ==
    \A k \in Positions(trace, {"submit"}) : \A j \in 1..(k - 1) : trace[j].op # "status"

\* no result request precedes a submission
NoResultsBeforeSubmit ==
    \A k \in Positions(trace, {"submit"}) : \A j \in 1..(k - 1) : trace[j].op # "results"

\* what precedes a submission is the cache read, the freshness request, or one
\* result request by query id answered 'no execution found' just before it
OnlyNullBeforeSubmit ==
    \A k \in Positions(trace, {"submit"}) :
        \A j \in 1..(k - 1) :
            \/ trace[j].op \in CacheReadOps \cup {"age"}
            \/ j = k - 1 /\ NullAt(j) /\ trace[j].id = 0

\* after an accepted submission come the polls of the new execution and then
\* result requests for it
SubmittedIsPolledThenFetched ==
    \A k \in Positions(trace, {"submit"}) :
        \A m \in After(k) :
            /\ trace[m].op \in {"status", "results"} => trace[m].id = trace[k].id
            /\ trace[m].op = "results" => trace[m - 1].op = "status"
            /\ trace[m].op = "status" => \A j \in (k + 1)..m : trace[j].op = "status"

\* C29: in one call the cache read precedes every other step and no submission
\* follows a poll; a submission is preceded by no result request but the one
\* by query id answered 'no execution found', and is followed by the polls of
\* the submitted execution and then the request for its result.
C29_StepsInOrder ==
    /\ CacheReadFirst
    /\ NoSubmitAfterPoll
    /\ OnlyNullBeforeSubmit
    /\ SubmittedIsPolledThenFetched

C29_Witness ==
    /\ ReturnedNormally
    /\ \E k \in Positions(trace, {"submit"}) :
           /\ k > 2
           /\ trace[1].op = "latest"
           /\ trace[k - 1].op = "results"
           /\ \E m \in After(k) : trace[m].op = "results"

\* C29 (as claimed): the steps occur in the order cache read, submission,
\* polling, result retrieval, with no result request before the submission.
C29_NoResultsBeforeSubmission ==
    /\ CacheReadFirst
    /\ NoSubmitAfterPoll
    /\ NoResultsBeforeSubmit

(***************************************************************************)
(* Properties of the resolution of the input.                              *)
(***************************************************************************)
\* C30: an integer resolves to itself as query_id; the API URL, the web URL
\* and the decimal text of a query resolve to its id; a non-empty text that is
\* neither a number nor a URL resolves to the raw-SQL query id with the text as
\* the only parameter, under the key 'query'; the execution is null in each
\* case.
C30_InputsResolve ==
    pc = "resolved" =>
        LET r == Val(frame.resolved)
        IN  /\ frame.input.form \in {"integer", "numeric", "api_url", "web_url"} =>
                   r = Resolved(Some(frame.input.n), None, frame.parameters)
            /\ frame.input.form = "sql" =>
                   r = Resolved(Some(raw_sql_query_id), None,
                                Some(<<<<"query", frame.input.query.str>>>>))

C30_Witness ==
    /\ pc = "resolved"
    /\ frame.input.form = "web_url"
    /\ frame.input.n = query_4388
    /\ Len(frame.input.query.str) > Len(web_queries_separator) + 4
    /\ Val(frame.resolved).query_id = Some(query_4388)

(***************************************************************************)
(* Properties of the decoding under type overrides.                        *)
(***************************************************************************)
Decoded == Val(frame.decoded)
DecodedColumns == frame.text[1]
DictOf(o) == Val(o).dict

\* a mapping that names exactly the columns of the data, each with a type
CoversColumns(o) ==
    /\ ~IsNone(o) /\ Val(o).tag = "dict"
    /\ {DictOf(o)[k][1] : k \in DOMAIN DictOf(o)} = {DecodedColumns[c] : c \in DOMAIN DecodedColumns}
    /\ \A k \in DOMAIN DictOf(o) : ~IsNone(DictOf(o)[k][2])

\* every cell of the data can be cast to the type its column is given
Castable(o) ==
    \A i \in DOMAIN Tail(frame.text), c \in DOMAIN DecodedColumns :
        cast(Val(Lookup(DictOf(o), DecodedColumns[c])), Tail(frame.text)[i][c]).ok

\* C31: with an all_types mapping (and no types) that lacks a column of the
\* data or names a column the data has not, decoding raises and gives no
\* table; with one that covers exactly the columns, and values that can be
\* cast, the table has the types of the mapping.
C31_StrictMappingChecked ==
    (pc = "decoded" /\ IsNone(frame.types) /\ ~IsNone(frame.all_types)
     /\ Val(frame.all_types).tag = "dict") =>
        LET names == {DictOf(frame.all_types)[k][1] : k \in DOMAIN DictOf(frame.all_types)}
            data == {DecodedColumns[c] : c \in DOMAIN DecodedColumns}
        IN  /\ names # data => Decoded.raise /\ IsNone(Decoded.table)
            /\ (CoversColumns(frame.all_types) /\ Castable(frame.all_types)) =>
                   /\ ~Decoded.raise
                   /\ \A c \in DOMAIN DecodedColumns :
                          Val(Decoded.table).dtypes[c] =
                              Val(Lookup(DictOf(frame.all_types), DecodedColumns[c]))

C31_Witness ==
    /\ pc = "decoded"
    /\ IsNone(frame.types)
    /\ CoversColumns(frame.all_types)
    /\ ~Decoded.raise
    /\ Val(Decoded.table).dtypes = <<"String", "Boolean">>
    /\ infer_type(<<frame.text[2][1]>>) = "Int64"

\* C35: a positional all_types list (and no types) that gives one type for
\* every column of the data is accepted, and the table has the listed types in
\* column order.
C35_StrictListAccepted ==
    (/\ pc = "decoded" /\ IsNone(frame.types) /\ ~IsNone(frame.all_types)
     /\ Val(frame.all_types).tag = "list"
     /\ Len(Val(frame.all_types).list) = Len(DecodedColumns)
     /\ \A c \in DOMAIN DecodedColumns :
            /\ ~IsNone(Val(frame.all_types).list[c])
            /\ \A i \in DOMAIN Tail(frame.text) :
                   cast(Val(Val(frame.all_types).list[c]), Tail(frame.text)[i][c]).ok) =>
        /\ ~Decoded.raise
        /\ \A c \in DOMAIN DecodedColumns :
               Val(Decoded.table).dtypes[c] = Val(Val(frame.all_types).list[c])

\* the override the call gives for column c, None when it gives none
GivenOverride(c) ==
    override_of(IF ~IsNone(frame.all_types) THEN frame.all_types ELSE frame.types,
                c, DecodedColumns[c])

\* C36: in a decoded table the columns are those of the header, in its order;
\* a column with a non-null override (by position or by name) has the type of
\* the override and its values cast to it, a column without one has the type
\* inferred from its values; giving both types and all_types raises.
C36_OverrideThenInferred ==
    pc = "decoded" =>
        /\ (~IsNone(frame.types) /\ ~IsNone(frame.all_types)) =>
               Decoded = DecodeRaised("cannot specify both types and all_types")
        /\ ~Decoded.raise =>
               /\ Val(Decoded.table).columns = DecodedColumns
               /\ Len(Val(Decoded.table).rows) = Len(frame.text) - 1
               /\ \A c \in DOMAIN DecodedColumns :
                      /\ Val(Decoded.table).dtypes[c] =
                             IF IsNone(GivenOverride(c))
                             THEN infer_type([i \in 1..(Len(frame.text) - 1) |->
                                                 frame.text[i + 1][c]])
                             ELSE Val(GivenOverride(c))
                      /\ \A i \in DOMAIN Val(Decoded.table).rows :
                             Val(Decoded.table).rows[i][c].dtype = Val(Decoded.table).dtypes[c]
        /\ (IsNone(frame.all_types) /\ ~IsNone(frame.types) /\ Val(frame.types).tag = "list") =>
               (Decoded.raise => Decoded.error = "InvalidOperationError")

\* a types mapping in the reverse of the header order, one column overridden
\* against its inferred type, one left to inference
C36_Witness ==
    /\ pc = "decoded"
    /\ ~Decoded.raise
    /\ frame.types = TypesDict(<<<<<<"v">>, None>>, <<<<"n">>, Some("String")>>>>)
    /\ Val(Decoded.table).dtypes = <<"String", "Boolean">>
    /\ infer_type(<<frame.text[2][1]>>) = "Int64"

(***************************************************************************)
(* What a call may touch.                                                  *)
(***************************************************************************)
CacheReads == Positions(trace, {"cache_exists", "cache_read"})
CacheWrites == Positions(trace, {"cache_write"})

\* C32: a call with cache=False reads and writes no cache file, a call with
\* save_to_cache=False writes none and a call with load_from_cache=False reads
\* none; a call that writes none leaves the files as they were.
C32_FlagsBoundCacheAccess ==
    /\ ~inp.cache => CacheReads = {} /\ CacheWrites = {}
    /\ ~inp.save_to_cache => CacheWrites = {}
    /\ ~inp.load_from_cache => CacheReads = {}
    /\ (~inp.cache \/ ~inp.save_to_cache) => files = files_before

\* a save-only call that wrote beside the files it did not read
C32_Witness ==
    /\ pc = "done"
    /\ inp.cache /\ ~inp.load_from_cache /\ inp.save_to_cache
    /\ files_before # {}
    /\ CacheWrites # {}
    /\ files # files_before

(***************************************************************************)
(* The cache read when the latest execution is not finished.               *)
(***************************************************************************)
\* the call began with a cache read whose lookup found the latest execution
\* unfinished
LookupFoundUnfinished ==
    /\ trace # <<>>
    /\ trace[1].op = "latest"
    /\ "error" \notin trace[1].resp.keys
    /\ ~trace[1].resp.is_execution_finished

\* C33: when the lookup of the cache read finds the latest execution
\* unfinished, get_latest_execution gives null, load_from_cache gives
\* (null, null) without looking at the files, and the call reads no cached
\* table, whatever the cache holds, but requests the results by query id next.
C33_UnfinishedIsNoCacheHit ==
    LookupFoundUnfinished =>
        /\ get_latest_execution(trace[1].resp, FALSE) = [raise |-> FALSE, execution |-> None]
        /\ load_from_cache(files_before, get_latest_execution(trace[1].resp, FALSE).execution,
                           execute_kwargs(inp), result_kwargs(inp), inp).result = NoResult
        /\ load_from_cache(files_before, get_latest_execution(trace[1].resp, FALSE).execution,
                           execute_kwargs(inp), result_kwargs(inp), inp).execution = None
        /\ Positions(trace, {"cache_exists", "cache_read"}) = {}
        /\ Len(trace) = 1 => pc = "results" /\ IsNone(execution) /\ result = NoResult
        /\ Len(trace) > 1 => trace[2].op = "results" /\ trace[2].id = 0

\* the second call finds an unfinished execution while the result of the
\* finished one before it is in the cache, and returns a fetched table
C33_Witness ==
    /\ LookupFoundUnfinished
    /\ pc = "done"
    /\ result.kind = "table"
    /\ files # {}
    /\ \E f \in files : f.path.execution_id # trace[1].resp.execution_id
    /\ Len(trace) > 2

\* the cache read of the call missed and gave the latest execution, and the
\* call has submitted none
MissedWithExecution ==
    /\ trace # <<>>
    /\ trace[1].op = "latest"
    /\ ~get_latest_execution(trace[1].resp, FALSE).raise
    /\ ~IsNone(get_latest_execution(trace[1].resp, FALSE).execution)
    /\ Positions(trace, {"cache_read", "submit"}) = {}

\* C34: a call whose cache read missed but gave the latest execution, and that
\* submits no execution of its own, saves its result under the key of that
\* execution and makes no second request for the latest execution.
C34_OneLookupPerCall ==
    MissedWithExecution =>
        /\ Positions(trace, {"latest"}) = {1}
        /\ \A k \in Positions(trace, {"cache_write"}) :
               trace[k].id = trace[1].resp.execution_id

(***************************************************************************)
(* Properties of the URLs of the requests for results.                     *)
(***************************************************************************)
\* the arguments of a URL are the non-null retrieval parameters, one each, a
\* mapping as one argument "key.subkey" for each of its entries
FlatArguments(url, rk) ==
    /\ \A k \in DOMAIN url.args :
           /\ ~IsNone(url.args[k].value)
           /\ ~(IsMapping(url.args[k]) /\ IsNone(url.args[k].subkey))
    /\ \A f \in {"limit", "offset", "sample_count", "sort_by", "columns"} :
           Cardinality({k \in DOMAIN url.args : url.args[k].key = f}) =
               (IF IsNone(rk[f]) THEN 0 ELSE 1)
    /\ \A k \in DOMAIN url.args :
           url.args[k].key \in {"limit", "offset", "sample_count", "sort_by", "columns"} =>
               url.args[k].value = rk[url.args[k].key]
    /\ ~IsNone(rk.extras) =>
           \A e \in DOMAIN Val(rk.extras) :
               \E k \in DOMAIN url.args :
                   url.args[k] = Arg("extras", Some(Val(rk.extras)[e][1]),
                                     Some(Val(rk.extras)[e][2]))

\* C37: the URL of every request of query for results, by query id and by
\* execution id, has one argument for each non-null parameter, none for a null
\* one, and the arguments key.subkey for the entries of a mapping.
C37_UrlArgumentsFlat ==
    \A k \in DOMAIN frame.query : FlatArguments(frame.query[k].url, result_kwargs(inp))

(***************************************************************************)
(* The submissions of a call.                                              *)
(***************************************************************************)
Submissions == Positions(trace, {"submit"})

\* C38: a call submits at most once; it submits nothing for an execution
\* handle, nothing after a cache hit and nothing after a fetch that gave an
\* existing result: a submission follows refresh=True, the freshness request
\* or the fetch by query id answered 'no execution found'.
C38_AtMostOneSubmission ==
    /\ Cardinality(Submissions) <= 1
    /\ inp.query_or_execution.kind = "execution" => Submissions = {}
    /\ Positions(trace, {"cache_read"}) # {} => Submissions = {}
    /\ \A k \in Submissions :
           /\ \A j \in 1..(k - 1) :
                  trace[j].op = "results" => "error" \in trace[j].resp.keys
           /\ \/ inp.refresh
              \/ k > 1 /\ trace[k - 1].op = "age"
              \/ k > 1 /\ NullAt(k - 1)

C38_Witness ==
    /\ ReturnedNormally
    /\ Cardinality(Submissions) = 1
    /\ ~inp.refresh
    /\ IsNone(inp.max_age)
    /\ result.kind = "table"

(***************************************************************************)
(* The number of page requests.                                            *)
(***************************************************************************)
\* the requests of call i that follow a cursor
PageRequests(i) == {k \in DOMAIN trace : trace[k].op = "page" /\ trace[k].id = i}

FinishedWithoutSuccess(resp) ==
    /\ "is_execution_finished" \in resp.keys
    /\ resp.is_execution_finished
    /\ resp.state # "QUERY_STATE_COMPLETED"

\* C40: a finished status whose state is not the success state (failed,
\* cancelled) ends the poll, and with it the call, with an error; the poller
\* returns normally only on the status of a succeeded execution.
C40_PollEndsOnSuccessOrError ==
    \A k \in Positions(trace, {"status"}) :
        /\ FinishedWithoutSuccess(trace[k].resp) =>
               k = Len(trace) /\ pc = "done" /\ result.kind = "raise"
        /\ poll_execution(Execution(trace[k].id, FALSE, None), trace[k].resp).next = "break" =>
               trace[k].resp.state = "QUERY_STATE_COMPLETED"
====
